---- MODULE Spec2Model ----
(***************************************************************************)
(* State-machine model of the scrim bot's command handlers                 *)
(* (src/src/bot_service.rs).  Every handler takes the single write lock on *)
(* the shared data for its whole body, so a handler is one atomic action,  *)
(* except where the code itself releases the lock between two parts        *)
(* (handle_recover_queue) or holds it across a long wait (handle_start,    *)
(* modelled in two steps during which no other handler can run).           *)
(* A handler that hits an unwrap() on None/Err panics: its task ends, the  *)
(* lock guard is dropped, and every assignment made so far stays.          *)
(***************************************************************************)
EXTENDS Integers, Sequences, FiniteSets, TLC

\* ---------------------------------------------------------------- bounds
\* Number of chat users.  Ten are needed to fill the queue; the last one is the
\* admin, who has no steam id registered at startup.
NumPlayers == 12
\* Users 1..MaxActor issue every command at any time; the remaining users
\* ("fillers") only fill the queue, the teams and the ready list, and do so
\* in ascending order of id.
MaxActor == 1
\* Largest reaction count a ballot symbol can collect.
MaxVotes == 2
\* Length of the mention list of a .recoverqueue message.
MaxMentions == 2
\* Number of map names the admin uses: one more than the pool can hold.
NumMapNames == 27

\* ------------------------------------------------------ program constants
\* handle_join: user_queue.len() >= 10 ; handle_start: len() != 10 ;
\* handle_ready: ready_queue.len() >= 10
QueueCap == 10
\* handle_pick: team_a.len() == 5 && team_b.len() == 5
TeamSize == 5
\* handle_add_map: maps.len() >= 26
MaxMaps == 26
\* handle_start: ('a'..'z') is a half-open range: 25 ballot letters
NumLetters == 25
\* handle_teamname: teamname.len() > 18
MaxTeamName == 18

Players == 1..NumPlayers
Actors == 1..MaxActor
\* Discord role membership is external to the bot: the last user holds the
\* admin role.
Admin == NumPlayers
Fillers == Players \ (Actors \cup {Admin})
\* Option<User>::None
NoUser == 0

VARIABLES
    state,            \* BotState.state
    user_queue,       \* UserQueue: Vec<User>
    queue_msgs,       \* QueueMessages: keys of the HashMap<u64, String>
    ready_queue,      \* ReadyQueue: Vec<User>
    captain_a,        \* Draft.captain_a
    captain_b,        \* Draft.captain_b
    team_a,           \* Draft.team_a
    team_b,           \* Draft.team_b
    current_picker,   \* Draft.current_picker
    team_b_start_side,\* Draft.team_b_start_side
    steam_id_cache,   \* SteamIdCache: HashMap<u64, String>
    maps,             \* Maps: Vec<String>
    teamname_cache,   \* TeamNameCache: HashMap<u64, String>
    files,            \* steam-ids.json, maps.json, teamnames.json on disk
    server_url,       \* Config.server.url, read from config.yaml at startup
    pc,               \* position of the handle_start task holding the lock
    ballot,           \* handle_start's local: the maps of the posted ballot
    start_by,         \* handle_start's msg.author while the task runs
    recover_pending,  \* mentions handle_recover_queue has still to join
    recover_by,       \* author of the .recoverqueue message being processed
    recover_mentions, \* msg.mentions of the .recoverqueue being processed
    out               \* what the last handler run sent, called and logged

draft_vars == <<captain_a, captain_b, team_a, team_b, current_picker,
                team_b_start_side>>
queue_vars == <<user_queue, queue_msgs>>
store_vars == <<steam_id_cache, maps, teamname_cache, files, server_url>>
task_vars == <<pc, ballot, start_by, recover_pending, recover_by,
               recover_mentions>>
vars == <<state, queue_vars, ready_queue, draft_vars, store_vars, task_vars, out>>

\* ---------------------------------------------------------------- helpers
Range(s) == {s[i] : i \in 1..Len(s)}
\* Vec::contains
Contains(s, x) == \E i \in 1..Len(s) : s[i] = x
\* Iterator::position
Position(s, x) == CHOOSE i \in 1..Len(s) : s[i] = x /\ \A j \in 1..(i - 1) : s[j] # x
\* Vec::remove(index)
RemoveAt(s, i) == [j \in 1..(Len(s) - 1) |-> IF j < i THEN s[j] ELSE s[j + 1]]
NoDup(s) == \A i, j \in 1..Len(s) : i # j => s[i] # s[j]
Min(S) == CHOOSE x \in S : \A y \in S : x <= y
\* HashMap::insert
Insert(m, k, v) == [x \in DOMAIN m \cup {k} |-> IF x = k THEN v ELSE m[x]]

\* What a handler run leaves behind for an observer: the command, the user the
\* last message mentions (for a panic: the author), the text of the last
\* message by kind, and the external calls made, in order.
Out(cmd, text, user, calls) == [cmd |-> cmd, msg |-> text, who |-> user, calls |-> calls]
Say(cmd, text, user) == Out(cmd, text, user, <<>>)
\* The task panicked on an unwrap() or an index: nothing more is sent.
Panic(cmd, user, calls) == Out(cmd, "panic", user, calls)
\* One external call: the endpoint, its two arguments and its outcome.
Call(api, a, b, status) == [api |-> api, a |-> a, b |-> b, status |-> status]

\* Variant in which handle_start gives the lock up during the vote.
Unlocked_during_vote == pc \in {"idle", "vote"}
\* No handler holds the data lock.
Unlocked == pc = "idle"

\* ------------------------------------------------------------- steam ids
\* A steam id as the string of its characters, "STEAM_<u>:1:<account>"; user p
\* owns account number p.
Digit == <<"1", "2", "3", "4", "5", "6", "7", "8", "9">>
DigitChars == Range(Digit) \cup {"0"}
RECURSIVE DigitsOf(_)
DigitsOf(n) ==
    IF n < 10 THEN <<IF n = 0 THEN "0" ELSE Digit[n]>>
    ELSE DigitsOf(n \div 10) \o <<IF n % 10 = 0 THEN "0" ELSE Digit[n % 10]>>
SteamIdStr(u, p) == <<"S", "T", "E", "A", "M", "_", u, ":", "1", ":">> \o DigitsOf(p)
\* Regex "^STEAM_[0-5]:[01]:\d+$"
steam_id_regex(s) ==
    /\ Len(s) >= 11
    /\ SubSeq(s, 1, 6) = <<"S", "T", "E", "A", "M", "_">>
    /\ s[7] \in {"0", "1", "2", "3", "4", "5"}
    /\ s[8] = ":"
    /\ s[9] \in {"0", "1"}
    /\ s[10] = ":"
    /\ \A i \in 11..Len(s) : s[i] \in DigitChars

\* -------------------------------------------------------- server address
\* The server address as the string of its characters.
\* str::find(':') as the number of characters up to and including the first
\* colon; unwrap_or_else(|| 0) + 1 when there is none.
\* Variant without the + 1: the port is read from the colon on.
port_start_at_colon(url) ==
    LET I == {i \in 1..Len(url) : url[i] = ":"}
    IN  IF I = {} THEN 0 ELSE Min(I) - 1
port_start(url) ==
    LET I == {i \in 1..Len(url) : url[i] = ":"}
    IN  IF I = {} THEN 1 ELSE Min(I)
DigitVal(c) == IF c = "0" THEN 0 ELSE CHOOSE d \in 1..9 : Digit[d] = c
RECURSIVE DecimalValue(_)
DecimalValue(s) ==
    IF s = <<>> THEN 0
    ELSE 10 * DecimalValue(SubSeq(s, 1, Len(s) - 1)) + DigitVal(s[Len(s)])
\* str::parse::<i64>(): an optional sign and at least one digit, nothing
\* else; <<n>> for Ok(n), <<>> for Err.  (The ports of the model are far
\* below i64::MAX.)
parse_i64(s) ==
    LET signed == s # <<>> /\ s[1] \in {"+", "-"}
        digits == IF signed THEN Tail(s) ELSE s
    IN  IF digits = <<>> \/ \E i \in 1..Len(digits) : digits[i] \notin DigitChars
        THEN <<>>
        ELSE <<IF signed /\ s[1] = "-" THEN 0 - DecimalValue(digits)
               ELSE DecimalValue(digits)>>
\* Display of an i64
format_i64(n) == IF n < 0 THEN <<"-">> \o DigitsOf(0 - n) ELSE DigitsOf(n)
\* The GOTV address announced after a launch.
gotv_url(url) ==
    LET parsed == parse_i64(SubSeq(url, port_start(url) + 1, Len(url)))
        gotv_port == (IF parsed = <<>> THEN 0 ELSE parsed[1]) + 1
    IN  SubSeq(url, 1, port_start(url)) \o format_i64(gotv_port)
\* The address in the configuration the bot is started with.
DefaultUrl == <<"1", ".", "2", ".", "3", ".", "4", ":", "2", "7", "0", "1", "5">>

\* ------------------------------------------------------------------- init
\* The three stores are loaded from their files at startup: every user but
\* the last has registered a steam id, the pool holds two maps.
Init ==
    /\ state = "Queue"
    /\ user_queue = <<>>
    /\ queue_msgs = {}
    /\ ready_queue = <<>>
    /\ captain_a = NoUser
    /\ captain_b = NoUser
    /\ team_a = <<>>
    /\ team_b = <<>>
    /\ current_picker = NoUser
    /\ team_b_start_side = ""
    /\ steam_id_cache = [p \in 1..(NumPlayers - 1) |-> SteamIdStr("0", p)]
    /\ maps = <<"de_dust2", "de_inferno">>
    /\ teamname_cache = <<>>
    /\ files = [steam_ids |-> steam_id_cache, maps |-> maps, teamnames |-> teamname_cache]
    /\ server_url = DefaultUrl
    /\ pc = "idle"
    /\ ballot = <<>>
    /\ start_by = NoUser
    /\ recover_pending = <<>>
    /\ recover_by = NoUser
    /\ recover_mentions = <<>>
    /\ out = Say("", "", NoUser)

\* ---------------------------------------------------------- admin_check
\* Variant that finds the role on every user.
admin_check_all(author) == author \in Players
admin_check(author) == author = Admin

\* ------------------------------------------------------------ handle_join
\* `author` is the user joined, `msg_author` the author of the message (the
\* same user for .join, the admin for the joins made by .recoverqueue),
\* `quoted` whether the message text holds a quoted span.
\* Variant with the capacity test off by one (> for >=).
handle_join_over(author, msg_author, quoted) ==
    IF author \notin DOMAIN steam_id_cache
    THEN /\ out' = Say("join", "steamid_not_found", author)
         /\ UNCHANGED queue_vars
    ELSE IF Len(user_queue) > QueueCap
    THEN /\ out' = Say("join", "queue_full", author)
         /\ UNCHANGED queue_vars
    ELSE IF Contains(user_queue, author)
    THEN /\ out' = Say("join", "already_in_queue", author)
         /\ UNCHANGED queue_vars
    ELSE /\ user_queue' = Append(user_queue, author)
         /\ queue_msgs' = IF quoted THEN queue_msgs \cup {msg_author} ELSE queue_msgs
         /\ out' = Say("join", "added_to_queue", author)
\* Variant that stores the note before the capacity test.
handle_join_note(author, msg_author, quoted) ==
    IF author \notin DOMAIN steam_id_cache
    THEN /\ out' = Say("join", "steamid_not_found", author)
         /\ UNCHANGED queue_vars
    ELSE IF Len(user_queue) >= QueueCap
    THEN /\ out' = Say("join", "queue_full", author)
         /\ queue_msgs' = IF quoted THEN queue_msgs \cup {msg_author} ELSE queue_msgs
         /\ UNCHANGED user_queue
    ELSE IF Contains(user_queue, author)
    THEN /\ out' = Say("join", "already_in_queue", author)
         /\ UNCHANGED queue_vars
    ELSE /\ user_queue' = Append(user_queue, author)
         /\ queue_msgs' = IF quoted THEN queue_msgs \cup {msg_author} ELSE queue_msgs
         /\ out' = Say("join", "added_to_queue", author)
\* Variant without the steam id test.
handle_join_no_id(author, msg_author, quoted) ==
    IF Len(user_queue) >= QueueCap
    THEN /\ out' = Say("join", "queue_full", author)
         /\ UNCHANGED queue_vars
    ELSE IF Contains(user_queue, author)
    THEN /\ out' = Say("join", "already_in_queue", author)
         /\ UNCHANGED queue_vars
    ELSE /\ user_queue' = Append(user_queue, author)
         /\ queue_msgs' = IF quoted THEN queue_msgs \cup {msg_author} ELSE queue_msgs
         /\ out' = Say("join", "added_to_queue", author)
handle_join(author, msg_author, quoted) ==
    IF author \notin DOMAIN steam_id_cache
    THEN /\ out' = Say("join", "steamid_not_found", author)
         /\ UNCHANGED queue_vars
    ELSE IF Len(user_queue) >= QueueCap
    THEN /\ out' = Say("join", "queue_full", author)
         /\ UNCHANGED queue_vars
    ELSE IF Contains(user_queue, author)
    THEN /\ out' = Say("join", "already_in_queue", author)
         /\ UNCHANGED queue_vars
    ELSE /\ user_queue' = Append(user_queue, author)
         /\ queue_msgs' = IF quoted THEN queue_msgs \cup {msg_author} ELSE queue_msgs
         /\ out' = Say("join", "added_to_queue", author)

\* The .join command.
Join(author, quoted) ==
    /\ Unlocked
    /\ handle_join(author, author, quoted)
    /\ UNCHANGED <<state, ready_queue, draft_vars, store_vars, task_vars>>

\* ----------------------------------------------------------- handle_leave
\* Variant without the test on the phase.
handle_leave_any_phase(author) ==
    /\ Unlocked
    /\ IF ~Contains(user_queue, author)
       THEN /\ out' = Say("leave", "not_in_queue", author)
            /\ UNCHANGED queue_vars
       ELSE /\ user_queue' = RemoveAt(user_queue, Position(user_queue, author))
            /\ queue_msgs' = queue_msgs \ {author}
            /\ out' = Say("leave", "left_queue", author)
    /\ UNCHANGED <<state, ready_queue, draft_vars, store_vars, task_vars>>
handle_leave(author) ==
    /\ Unlocked
    /\ IF state # "Queue"
       THEN /\ out' = Say("leave", "cannot_leave_after_start", author)
            /\ UNCHANGED queue_vars
       ELSE IF ~Contains(user_queue, author)
       THEN /\ out' = Say("leave", "not_in_queue", author)
            /\ UNCHANGED queue_vars
       ELSE /\ user_queue' = RemoveAt(user_queue, Position(user_queue, author))
            /\ queue_msgs' = queue_msgs \ {author}
            /\ out' = Say("leave", "left_queue", author)
    /\ UNCHANGED <<state, ready_queue, draft_vars, store_vars, task_vars>>

\* ----------------------------------------------------------- handle_clear
handle_clear(author) ==
    /\ Unlocked
    /\ IF ~admin_check(author)
       THEN /\ out' = Say("clear", "requires_role", author)
            /\ UNCHANGED user_queue
       ELSE /\ user_queue' = <<>>
            /\ out' = Say("clear", "cleared_queue", author)
    /\ UNCHANGED <<state, queue_msgs, ready_queue, draft_vars, store_vars, task_vars>>

\* ------------------------------------------------------------ handle_kick
\* `mentions` is msg.mentions; the code indexes mentions[0] unchecked.
handle_kick(author, mentions) ==
    /\ Unlocked
    /\ IF ~admin_check(author)
       THEN /\ out' = Say("kick", "requires_role", author)
            /\ UNCHANGED user_queue
       ELSE IF state # "Queue"
       THEN /\ out' = Say("kick", "cannot_kick_after_start", author)
            /\ UNCHANGED user_queue
       ELSE IF mentions = <<>>
       THEN /\ out' = Panic("kick", author, <<>>)
            /\ UNCHANGED user_queue
       ELSE IF ~Contains(user_queue, mentions[1])
       THEN /\ out' = Say("kick", "not_in_queue", author)
            /\ UNCHANGED user_queue
       ELSE /\ user_queue' = RemoveAt(user_queue, Position(user_queue, mentions[1]))
            /\ out' = Say("kick", "kicked", mentions[1])
    /\ UNCHANGED <<state, queue_msgs, ready_queue, draft_vars, store_vars, task_vars>>

\* --------------------------------------------------- handle_recover_queue
\* The first part: the admin check, then (under the lock) the two clears.
\* The lock is released before the joins.
handle_recover_queue(author, mentions) ==
    /\ Unlocked
    /\ recover_pending = <<>>
    /\ IF ~admin_check(author)
       THEN /\ out' = Say("recoverqueue", "requires_role", author)
            /\ UNCHANGED <<queue_vars, recover_pending, recover_by, recover_mentions>>
       ELSE /\ user_queue' = <<>>
            /\ queue_msgs' = {}
            /\ recover_pending' = mentions
            /\ recover_by' = IF mentions = <<>> THEN NoUser ELSE author
            /\ recover_mentions' = mentions
            /\ out' = Say("recoverqueue", "", author)
    /\ UNCHANGED <<state, ready_queue, draft_vars, store_vars, pc, ballot, start_by>>

\* The loop body: handle_join of the next mention, each under its own
\* acquisition of the lock (other handlers run in between).
recover_join ==
    /\ Unlocked
    /\ recover_pending # <<>>
    /\ handle_join(Head(recover_pending), recover_by, FALSE)
    /\ recover_pending' = Tail(recover_pending)
    /\ recover_by' = IF Len(recover_pending) = 1 THEN NoUser ELSE recover_by
    /\ recover_mentions' = IF Len(recover_pending) = 1 THEN <<>> ELSE recover_mentions
    /\ UNCHANGED <<state, ready_queue, draft_vars, store_vars, pc, ballot, start_by>>

\* --------------------------------------------------------- handle_steam_id
\* `arg` is the second word of the message, <<>> when there is none.
handle_steam_id(author, arg, io_ok) ==
    /\ Unlocked
    /\ IF arg = <<>>
       THEN /\ out' = Say("steamid", "check_formatting", author)
            /\ UNCHANGED <<steam_id_cache, files>>
       ELSE IF ~steam_id_regex(arg)
       THEN /\ out' = Say("steamid", "invalid_formatting", author)
            /\ UNCHANGED <<steam_id_cache, files>>
       ELSE /\ steam_id_cache' = Insert(steam_id_cache, author, arg)
            /\ IF io_ok
               THEN /\ files' = [files EXCEPT !.steam_ids = steam_id_cache']
                    /\ out' = Say("steamid", "updated_steamid", author)
               ELSE /\ UNCHANGED files
                    /\ out' = Panic("steamid", author, <<>>)
    /\ UNCHANGED <<state, queue_vars, ready_queue, draft_vars, maps, teamname_cache,
                   server_url, task_vars>>

\* --------------------------------------------------------- handle_teamname
\* `arg` is the text after ".teamname " as the string of its characters,
\* <<>> when the message has no second word.
handle_teamname(author, arg, io_ok) ==
    /\ Unlocked
    /\ IF arg = <<>>
       THEN /\ out' = Say("teamname", "invalid_formatting", author)
            /\ UNCHANGED <<teamname_cache, files>>
       ELSE IF Len(arg) > MaxTeamName
       THEN /\ out' = Say("teamname", "over_character_limit", author)
            /\ UNCHANGED <<teamname_cache, files>>
       ELSE /\ teamname_cache' = Insert(teamname_cache, author, arg)
            /\ IF io_ok
               THEN /\ files' = [files EXCEPT !.teamnames = teamname_cache']
                    /\ out' = Say("teamname", "teamname_set", author)
               ELSE \* write_to_file: expect() on Err
                    /\ UNCHANGED files
                    /\ out' = Panic("teamname", author, <<>>)
    /\ UNCHANGED <<state, queue_vars, ready_queue, draft_vars, steam_id_cache, maps,
                   server_url, task_vars>>

\* ------------------------------------- handle_add_map / handle_remove_map
\* The map names a command can carry.  The pool is a Vec<String>; the names
\* are the first NumMapNames of this list.
MapNameList ==
    <<"de_dust2", "de_inferno", "de_mirage", "de_nuke", "de_overpass",
      "de_train", "de_vertigo", "de_cache", "de_cbble", "de_ancient",
      "de_anubis", "de_tuscan", "de_season", "de_aztec", "de_dust",
      "de_prodigy", "de_piranesi", "de_chateau", "de_port", "de_canals",
      "de_austria", "de_shipped", "de_subzero", "de_biome", "de_abbey",
      "de_zoo", "de_ruby", "de_breach", "de_seaside", "de_studio",
      "de_mutiny", "de_swamp">>
MapNames == {MapNameList[i] : i \in 1..NumMapNames}
\* The message has no second word: split(" ").take(2) has one element.
NoArg == "<no second word>"

\* Variant with the capacity test off by one (> for >=).
handle_add_map_over(author, arg, io_ok) ==
    /\ Unlocked
    /\ IF ~admin_check(author)
       THEN /\ out' = Say("addmap", "requires_role", author)
            /\ UNCHANGED <<maps, files>>
       ELSE IF Len(maps) > MaxMaps
       THEN /\ out' = Say("addmap", "max_maps_reached", author)
            /\ UNCHANGED <<maps, files>>
       ELSE IF arg = NoArg
       THEN /\ out' = Panic("addmap", author, <<>>)
            /\ UNCHANGED <<maps, files>>
       ELSE IF Contains(maps, arg)
       THEN /\ out' = Say("addmap", "map_already_exists", author)
            /\ UNCHANGED <<maps, files>>
       ELSE /\ maps' = Append(maps, arg)
            /\ IF io_ok
               THEN /\ files' = [files EXCEPT !.maps = maps']
                    /\ out' = Say("addmap", "added_map", author)
               ELSE /\ UNCHANGED files
                    /\ out' = Panic("addmap", author, <<>>)
    /\ UNCHANGED <<state, queue_vars, ready_queue, draft_vars, steam_id_cache,
                   teamname_cache, server_url, task_vars>>
\* `arg` is the second word of the message (NoArg when there is none),
\* `io_ok` whether maps.json could be written.
handle_add_map(author, arg, io_ok) ==
    /\ Unlocked
    /\ IF ~admin_check(author)
       THEN /\ out' = Say("addmap", "requires_role", author)
            /\ UNCHANGED <<maps, files>>
       ELSE IF Len(maps) >= MaxMaps
       THEN /\ out' = Say("addmap", "max_maps_reached", author)
            /\ UNCHANGED <<maps, files>>
       ELSE IF arg = NoArg
       THEN \* collect::<Vec<_>>()[1] out of range
            /\ out' = Panic("addmap", author, <<>>)
            /\ UNCHANGED <<maps, files>>
       ELSE IF Contains(maps, arg)
       THEN /\ out' = Say("addmap", "map_already_exists", author)
            /\ UNCHANGED <<maps, files>>
       ELSE /\ maps' = Append(maps, arg)
            /\ IF io_ok
               THEN /\ files' = [files EXCEPT !.maps = maps']
                    /\ out' = Say("addmap", "added_map", author)
               ELSE \* write_to_file: expect() on Err
                    /\ UNCHANGED files
                    /\ out' = Panic("addmap", author, <<>>)
    /\ UNCHANGED <<state, queue_vars, ready_queue, draft_vars, steam_id_cache,
                   teamname_cache, server_url, task_vars>>

handle_remove_map(author, arg, io_ok) ==
    /\ Unlocked
    /\ IF ~admin_check(author)
       THEN /\ out' = Say("removemap", "requires_role", author)
            /\ UNCHANGED <<maps, files>>
       ELSE IF arg = NoArg
       THEN \* collect::<Vec<_>>()[1] out of range
            /\ out' = Panic("removemap", author, <<>>)
            /\ UNCHANGED <<maps, files>>
       ELSE IF ~Contains(maps, arg)
       THEN /\ out' = Say("removemap", "map_not_in_list", author)
            /\ UNCHANGED <<maps, files>>
       ELSE /\ maps' = RemoveAt(maps, Position(maps, arg))
            /\ IF io_ok
               THEN /\ files' = [files EXCEPT !.maps = maps']
                    /\ out' = Say("removemap", "removed_map", author)
               ELSE \* write_to_file: expect() on Err
                    /\ UNCHANGED files
                    /\ out' = Panic("removemap", author, <<>>)
    /\ UNCHANGED <<state, queue_vars, ready_queue, draft_vars, steam_id_cache,
                   teamname_cache, server_url, task_vars>>

\* ------------------------------------------------------------ handle_start
\* The vote: the reaction count read back for each ballot symbol.
\* Variant with the comparison of max_by reversed: the minimum.
max_count_min(results) ==
    CHOOSE c \in Range(results) : \A d \in Range(results) : c <= d
max_count(results) ==
    CHOOSE c \in Range(results) : \A d \in Range(results) : d <= c
\* The indexes (in ballot order) of the results tied at the maximum.
RECURSIVE Filter(_, _, _)
Filter(results, c, i) ==
    IF i > Len(results) THEN <<>>
    ELSE (IF results[i] = c THEN <<i>> ELSE <<>>) \o Filter(results, c, i + 1)
final_results(results) == Filter(results, max_count(results), 1)

\* The ballot symbols: ('a'..'z') excludes 'z'.
Alphabet ==
    <<"a", "b", "c", "d", "e", "f", "g", "h", "i", "j", "k", "l", "m", "n",
      "o", "p", "q", "r", "s", "t", "u", "v", "w", "x", "y", "z">>
a_to_z == SubSeq(Alphabet, 1, NumLetters)
\* a_to_z[..maps.len()]: the reactions attached to the ballot
emoji_suffixes == SubSeq(a_to_z, 1, Len(maps))
\* The lines of the ballot message: symbol and map
vote_text == [i \in 1..Len(maps) |-> <<a_to_z[i], maps[i]>>]

\* First part, up to the first sleep: the checks, state = MapPick, the ballot.
\* `chat_ok`: the ballot message and its reactions could be posted.
\* Variant without the test on the phase.
handle_start_any_phase(author, chat_ok) ==
    /\ Unlocked
    /\ IF ~admin_check(author)
       THEN /\ out' = Say("start", "requires_role", author)
            /\ UNCHANGED <<state, pc, ballot, start_by>>
       ELSE IF Len(user_queue) # QueueCap
       THEN /\ out' = Say("start", "queue_not_full", author)
            /\ UNCHANGED <<state, pc, ballot, start_by>>
       ELSE /\ state' = "MapPick"
            /\ IF Len(maps) > NumLetters \/ ~chat_ok
               THEN /\ out' = Panic("start", author, <<>>)
                    /\ UNCHANGED <<pc, ballot, start_by>>
               ELSE /\ pc' = "vote"
                    /\ ballot' = maps
                    /\ start_by' = author
                    /\ out' = Out("start", "map_vote", author,
                                  <<Call("say", vote_text, emoji_suffixes, "ok")>>)
    /\ UNCHANGED <<queue_vars, ready_queue, draft_vars, store_vars,
                   recover_pending, recover_by, recover_mentions>>
handle_start(author, chat_ok) ==
    /\ Unlocked
    /\ IF ~admin_check(author)
       THEN /\ out' = Say("start", "requires_role", author)
            /\ UNCHANGED <<state, pc, ballot, start_by>>
       ELSE IF state # "Queue"
       THEN /\ out' = Say("start", "already_entered", author)
            /\ UNCHANGED <<state, pc, ballot, start_by>>
       ELSE IF Len(user_queue) # QueueCap
       THEN /\ out' = Say("start", "queue_not_full", author)
            /\ UNCHANGED <<state, pc, ballot, start_by>>
       ELSE /\ state' = "MapPick"
            /\ IF Len(maps) > NumLetters \/ ~chat_ok
               THEN \* a_to_z[i] out of range, or say()/react() unwrap on Err
                    /\ out' = Panic("start", author, <<>>)
                    /\ UNCHANGED <<pc, ballot, start_by>>
               ELSE /\ pc' = "vote"
                    /\ ballot' = maps
                    /\ start_by' = author
                    /\ out' = Out("start", "map_vote", author,
                                  <<Call("say", vote_text, emoji_suffixes, "ok")>>)
    /\ UNCHANGED <<queue_vars, ready_queue, draft_vars, store_vars,
                   recover_pending, recover_by, recover_mentions>>

\* Second part, after the two sleeps, still under the lock: the counts are
\* read, the map is selected and set on the server, the captain pick starts.
\* `results[i]` is the count of ballot symbol i (<<>>: the message could not
\* be fetched), `rnd` the random index used on a tie, `set_map` the outcome
\* of the PUT.
start_finish(results, rnd, set_map) ==
    /\ pc = "vote"
    /\ results = <<>> \/ Len(results) = Len(ballot)
    /\ pc' = "idle"
    /\ ballot' = <<>>
    /\ start_by' = NoUser
    /\ LET author == start_by IN
       IF results = <<>>
       THEN \* message().unwrap() on Err, or max_by() of no result is None
            /\ out' = Panic("start", author, <<>>)
            /\ UNCHANGED <<state, draft_vars>>
       ELSE LET final == final_results(results)
                idx == IF Len(final) > 1 THEN rnd ELSE 0
                selected_map == ballot[final[idx + 1]]
                calls == <<Call("read_votes", results, ballot, "ok"),
                           Call("set_map", selected_map, <<>>, set_map)>>
            IN  /\ idx < Len(final)
                /\ IF set_map = "transport_error"
                   THEN /\ out' = Panic("start", author, calls)
                        /\ UNCHANGED <<state, draft_vars>>
                   ELSE /\ state' = "CaptainPick"
                        /\ captain_a' = NoUser
                        /\ captain_b' = NoUser
                        /\ team_a' = <<>>
                        /\ team_b' = <<>>
                        /\ UNCHANGED <<current_picker, team_b_start_side>>
                        /\ out' = Out("start", "captain_pick_started", author, calls)
    /\ UNCHANGED <<queue_vars, ready_queue, store_vars, recover_pending, recover_by,
                   recover_mentions>>

\* ---------------------------------------------------------- handle_captain
\* `flip` is the coin: gen_range(0, 2).
\* Variant that seeds the teams before the coin flip is applied: team A
\* always gets the first registrant.
handle_captain_seed_first(author, flip) ==
    /\ Unlocked
    /\ IF state # "CaptainPick"
       THEN /\ out' = Say("captain", "not_captain_pick_phase", author)
            /\ UNCHANGED <<state, draft_vars>>
       ELSE IF ~Contains(user_queue, author)
       THEN /\ out' = Say("captain", "not_in_queue", author)
            /\ UNCHANGED <<state, draft_vars>>
       ELSE IF captain_a # NoUser /\ author = captain_a
       THEN /\ out' = Say("captain", "already_captain", author)
            /\ UNCHANGED <<state, draft_vars>>
       ELSE LET a1 == IF captain_a = NoUser THEN author ELSE captain_a
                b1 == IF captain_a = NoUser THEN captain_b ELSE author
            IN  IF a1 # NoUser /\ b1 # NoUser
                THEN /\ captain_a' = IF flip # 0 THEN b1 ELSE a1
                     /\ captain_b' = IF flip # 0 THEN a1 ELSE b1
                     /\ team_a' = Append(team_a, a1)
                     /\ team_b' = Append(team_b, b1)
                     /\ current_picker' = captain_a'
                     /\ state' = "Draft"
                     /\ UNCHANGED team_b_start_side
                     /\ out' = Say("captain", "draft_started", captain_a')
                ELSE /\ captain_a' = a1
                     /\ captain_b' = b1
                     /\ UNCHANGED <<state, team_a, team_b, current_picker,
                                    team_b_start_side>>
                     /\ out' = Say("captain", "set_as_captain", author)
    /\ UNCHANGED <<queue_vars, ready_queue, store_vars, task_vars>>
\* Variant without the test that the author is not captain A already.
handle_captain_twice(author, flip) ==
    /\ Unlocked
    /\ IF state # "CaptainPick"
       THEN /\ out' = Say("captain", "not_captain_pick_phase", author)
            /\ UNCHANGED <<state, draft_vars>>
       ELSE IF ~Contains(user_queue, author)
       THEN /\ out' = Say("captain", "not_in_queue", author)
            /\ UNCHANGED <<state, draft_vars>>
       ELSE LET a1 == IF captain_a = NoUser THEN author ELSE captain_a
                b1 == IF captain_a = NoUser THEN captain_b ELSE author
            IN  IF a1 # NoUser /\ b1 # NoUser
                THEN /\ captain_a' = IF flip # 0 THEN b1 ELSE a1
                     /\ captain_b' = IF flip # 0 THEN a1 ELSE b1
                     /\ team_a' = Append(team_a, captain_a')
                     /\ team_b' = Append(team_b, captain_b')
                     /\ current_picker' = captain_a'
                     /\ state' = "Draft"
                     /\ UNCHANGED team_b_start_side
                     /\ out' = Say("captain", "draft_started", captain_a')
                ELSE /\ captain_a' = a1
                     /\ captain_b' = b1
                     /\ UNCHANGED <<state, team_a, team_b, current_picker,
                                    team_b_start_side>>
                     /\ out' = Say("captain", "set_as_captain", author)
    /\ UNCHANGED <<queue_vars, ready_queue, store_vars, task_vars>>
\* Variant without the test that the author is queued.
handle_captain_unqueued(author, flip) ==
    /\ Unlocked
    /\ IF state # "CaptainPick"
       THEN /\ out' = Say("captain", "not_captain_pick_phase", author)
            /\ UNCHANGED <<state, draft_vars>>
       ELSE IF captain_a # NoUser /\ author = captain_a
       THEN /\ out' = Say("captain", "already_captain", author)
            /\ UNCHANGED <<state, draft_vars>>
       ELSE LET a1 == IF captain_a = NoUser THEN author ELSE captain_a
                b1 == IF captain_a = NoUser THEN captain_b ELSE author
            IN  IF a1 # NoUser /\ b1 # NoUser
                THEN /\ captain_a' = IF flip # 0 THEN b1 ELSE a1
                     /\ captain_b' = IF flip # 0 THEN a1 ELSE b1
                     /\ team_a' = Append(team_a, captain_a')
                     /\ team_b' = Append(team_b, captain_b')
                     /\ current_picker' = captain_a'
                     /\ state' = "Draft"
                     /\ UNCHANGED team_b_start_side
                     /\ out' = Say("captain", "draft_started", captain_a')
                ELSE /\ captain_a' = a1
                     /\ captain_b' = b1
                     /\ UNCHANGED <<state, team_a, team_b, current_picker,
                                    team_b_start_side>>
                     /\ out' = Say("captain", "set_as_captain", author)
    /\ UNCHANGED <<queue_vars, ready_queue, store_vars, task_vars>>
handle_captain(author, flip) ==
    /\ Unlocked
    /\ IF state # "CaptainPick"
       THEN /\ out' = Say("captain", "not_captain_pick_phase", author)
            /\ UNCHANGED <<state, draft_vars>>
       ELSE IF ~Contains(user_queue, author)
       THEN /\ out' = Say("captain", "not_in_queue", author)
            /\ UNCHANGED <<state, draft_vars>>
       ELSE IF captain_a # NoUser /\ author = captain_a
       THEN /\ out' = Say("captain", "already_captain", author)
            /\ UNCHANGED <<state, draft_vars>>
       ELSE LET a1 == IF captain_a = NoUser THEN author ELSE captain_a
                b1 == IF captain_a = NoUser THEN captain_b ELSE author
            IN  IF a1 # NoUser /\ b1 # NoUser
                THEN /\ captain_a' = IF flip # 0 THEN b1 ELSE a1
                     /\ captain_b' = IF flip # 0 THEN a1 ELSE b1
                     /\ team_a' = Append(team_a, captain_a')
                     /\ team_b' = Append(team_b, captain_b')
                     /\ current_picker' = captain_a'
                     /\ state' = "Draft"
                     /\ UNCHANGED team_b_start_side
                     /\ out' = Say("captain", "draft_started", captain_a')
                ELSE /\ captain_a' = a1
                     /\ captain_b' = b1
                     /\ UNCHANGED <<state, team_a, team_b, current_picker,
                                    team_b_start_side>>
                     /\ out' = Say("captain", "set_as_captain", author)
    /\ UNCHANGED <<queue_vars, ready_queue, store_vars, task_vars>>

\* ------------------------------------------------------------- handle_pick
\* Variant without the test that the target is on no team yet.
handle_pick_no_team_test(author, mentions) ==
    /\ Unlocked
    /\ IF state # "Draft"
       THEN /\ out' = Say("pick", "not_draft_phase", author)
            /\ UNCHANGED <<state, draft_vars>>
       ELSE IF mentions = <<>>
       THEN /\ out' = Say("pick", "mention_a_user", author)
            /\ UNCHANGED <<state, draft_vars>>
       ELSE IF ~Contains(user_queue, mentions[1])
       THEN /\ out' = Say("pick", "user_not_in_queue", author)
            /\ UNCHANGED <<state, draft_vars>>
       ELSE IF author # captain_a /\ author # captain_b
       THEN /\ out' = Say("pick", "not_a_captain", author)
            /\ UNCHANGED <<state, draft_vars>>
       ELSE IF current_picker # author
       THEN /\ out' = Say("pick", "not_your_turn", author)
            /\ UNCHANGED <<state, draft_vars>>
       ELSE /\ IF captain_a = current_picker
               THEN /\ team_a' = Append(team_a, mentions[1])
                    /\ current_picker' = captain_b
                    /\ UNCHANGED team_b
               ELSE /\ team_b' = Append(team_b, mentions[1])
                    /\ current_picker' = captain_a
                    /\ UNCHANGED team_a
            /\ IF Len(team_a') = TeamSize /\ Len(team_b') = TeamSize
               THEN /\ state' = "SidePick"
                    /\ out' = Say("pick", "pick_a_side", captain_b)
               ELSE /\ UNCHANGED state
                    /\ out' = Say("pick", "added_to_team", mentions[1])
            /\ UNCHANGED <<captain_a, captain_b, team_b_start_side>>
    /\ UNCHANGED <<queue_vars, ready_queue, store_vars, task_vars>>
\* Variant without the test on whose turn it is.
handle_pick_any_turn(author, mentions) ==
    /\ Unlocked
    /\ IF state # "Draft"
       THEN /\ out' = Say("pick", "not_draft_phase", author)
            /\ UNCHANGED <<state, draft_vars>>
       ELSE IF mentions = <<>>
       THEN /\ out' = Say("pick", "mention_a_user", author)
            /\ UNCHANGED <<state, draft_vars>>
       ELSE IF ~Contains(user_queue, mentions[1])
       THEN /\ out' = Say("pick", "user_not_in_queue", author)
            /\ UNCHANGED <<state, draft_vars>>
       ELSE IF author # captain_a /\ author # captain_b
       THEN /\ out' = Say("pick", "not_a_captain", author)
            /\ UNCHANGED <<state, draft_vars>>
       ELSE IF Contains(team_a, mentions[1]) \/ Contains(team_b, mentions[1])
       THEN /\ out' = Say("pick", "already_on_a_team", author)
            /\ UNCHANGED <<state, draft_vars>>
       ELSE /\ IF captain_a = current_picker
               THEN /\ team_a' = Append(team_a, mentions[1])
                    /\ current_picker' = captain_b
                    /\ UNCHANGED team_b
               ELSE /\ team_b' = Append(team_b, mentions[1])
                    /\ current_picker' = captain_a
                    /\ UNCHANGED team_a
            /\ IF Len(team_a') = TeamSize /\ Len(team_b') = TeamSize
               THEN /\ state' = "SidePick"
                    /\ out' = Say("pick", "pick_a_side", captain_b)
               ELSE /\ UNCHANGED state
                    /\ out' = Say("pick", "added_to_team", mentions[1])
            /\ UNCHANGED <<captain_a, captain_b, team_b_start_side>>
    /\ UNCHANGED <<queue_vars, ready_queue, store_vars, task_vars>>
\* Variant in which a pick for team B does not hand the turn back.
handle_pick_b_keeps_turn(author, mentions) ==
    /\ Unlocked
    /\ IF state # "Draft"
       THEN /\ out' = Say("pick", "not_draft_phase", author)
            /\ UNCHANGED <<state, draft_vars>>
       ELSE IF mentions = <<>>
       THEN /\ out' = Say("pick", "mention_a_user", author)
            /\ UNCHANGED <<state, draft_vars>>
       ELSE IF ~Contains(user_queue, mentions[1])
       THEN /\ out' = Say("pick", "user_not_in_queue", author)
            /\ UNCHANGED <<state, draft_vars>>
       ELSE IF author # captain_a /\ author # captain_b
       THEN /\ out' = Say("pick", "not_a_captain", author)
            /\ UNCHANGED <<state, draft_vars>>
       ELSE IF current_picker # author
       THEN /\ out' = Say("pick", "not_your_turn", author)
            /\ UNCHANGED <<state, draft_vars>>
       ELSE IF Contains(team_a, mentions[1]) \/ Contains(team_b, mentions[1])
       THEN /\ out' = Say("pick", "already_on_a_team", author)
            /\ UNCHANGED <<state, draft_vars>>
       ELSE /\ IF captain_a = current_picker
               THEN /\ team_a' = Append(team_a, mentions[1])
                    /\ current_picker' = captain_b
                    /\ UNCHANGED team_b
               ELSE /\ team_b' = Append(team_b, mentions[1])
                    /\ current_picker' = captain_b
                    /\ UNCHANGED team_a
            /\ IF Len(team_a') = TeamSize /\ Len(team_b') = TeamSize
               THEN /\ state' = "SidePick"
                    /\ out' = Say("pick", "pick_a_side", captain_b)
               ELSE /\ UNCHANGED state
                    /\ out' = Say("pick", "added_to_team", mentions[1])
            /\ UNCHANGED <<captain_a, captain_b, team_b_start_side>>
    /\ UNCHANGED <<queue_vars, ready_queue, store_vars, task_vars>>
handle_pick(author, mentions) ==
    /\ Unlocked
    /\ IF state # "Draft"
       THEN /\ out' = Say("pick", "not_draft_phase", author)
            /\ UNCHANGED <<state, draft_vars>>
       ELSE IF mentions = <<>>
       THEN /\ out' = Say("pick", "mention_a_user", author)
            /\ UNCHANGED <<state, draft_vars>>
       ELSE IF ~Contains(user_queue, mentions[1])
       THEN /\ out' = Say("pick", "user_not_in_queue", author)
            /\ UNCHANGED <<state, draft_vars>>
       ELSE IF author # captain_a /\ author # captain_b
       THEN /\ out' = Say("pick", "not_a_captain", author)
            /\ UNCHANGED <<state, draft_vars>>
       ELSE IF current_picker # author
       THEN /\ out' = Say("pick", "not_your_turn", author)
            /\ UNCHANGED <<state, draft_vars>>
       ELSE IF Contains(team_a, mentions[1]) \/ Contains(team_b, mentions[1])
       THEN /\ out' = Say("pick", "already_on_a_team", author)
            /\ UNCHANGED <<state, draft_vars>>
       ELSE /\ IF captain_a = current_picker
               THEN /\ team_a' = Append(team_a, mentions[1])
                    /\ current_picker' = captain_b
                    /\ UNCHANGED team_b
               ELSE /\ team_b' = Append(team_b, mentions[1])
                    /\ current_picker' = captain_a
                    /\ UNCHANGED team_a
            /\ IF Len(team_a') = TeamSize /\ Len(team_b') = TeamSize
               THEN /\ state' = "SidePick"
                    /\ out' = Say("pick", "pick_a_side", captain_b)
               ELSE /\ UNCHANGED state
                    /\ out' = Say("pick", "added_to_team", mentions[1])
            /\ UNCHANGED <<captain_a, captain_b, team_b_start_side>>
    /\ UNCHANGED <<queue_vars, ready_queue, store_vars, task_vars>>

\* ------------------------------------- handle_ct_option / handle_t_option
\* Variant that takes the side from either captain.
side_option_either(cmd, author) ==
    /\ Unlocked
    /\ IF state # "SidePick"
       THEN /\ out' = Say(cmd, "not_side_pick_phase", author)
            /\ UNCHANGED <<state, team_b_start_side>>
       ELSE IF author # captain_b /\ author # captain_a
       THEN /\ out' = Say(cmd, "not_captain_b", author)
            /\ UNCHANGED <<state, team_b_start_side>>
       ELSE /\ team_b_start_side' = cmd
            /\ state' = "Ready"
            /\ out' = Say(cmd, "setup_completed", NoUser)
    /\ UNCHANGED <<queue_vars, ready_queue, captain_a, captain_b, team_a, team_b,
                   current_picker, store_vars, task_vars>>
side_option(cmd, author) ==
    /\ Unlocked
    /\ IF state # "SidePick"
       THEN /\ out' = Say(cmd, "not_side_pick_phase", author)
            /\ UNCHANGED <<state, team_b_start_side>>
       ELSE IF author # captain_b
       THEN /\ out' = Say(cmd, "not_captain_b", author)
            /\ UNCHANGED <<state, team_b_start_side>>
       ELSE /\ team_b_start_side' = cmd
            /\ state' = "Ready"
            /\ out' = Say(cmd, "setup_completed", NoUser)
    /\ UNCHANGED <<queue_vars, ready_queue, captain_a, captain_b, team_a, team_b,
                   current_picker, store_vars, task_vars>>
handle_ct_option(author) == side_option("ct", author)
handle_t_option(author) == side_option("t", author)

\* ------------------------------------------------------------ handle_ready
\* Variant that counts the range from 1: it rewrites the sixth character.
replace_range_from_one(s) == [s EXCEPT ![6] = "1"]
\* String::replace_range(6..7, "1")
replace_range(s) == [s EXCEPT ![7] = "1"]
\* Variant that cuts the last id instead of the trailing comma.
team_steam_ids_cut(team) ==
    [i \in 1..(Len(team) - 1) |-> replace_range(steam_id_cache[team[i]])]
\* The steam ids of a team, each rewritten, in team order.
team_steam_ids(team) == [i \in 1..Len(team) |-> replace_range(steam_id_cache[team[i]])]

\* Variant without the test that the author is ready already.
handle_ready_twice(author, launch) ==
    /\ Unlocked
    /\ IF state # "Ready"
       THEN /\ out' = Say("ready", "draft_not_completed", author)
            /\ UNCHANGED <<state, queue_vars, ready_queue, draft_vars>>
       ELSE IF ~Contains(user_queue, author)
       THEN /\ out' = Say("ready", "not_in_queue", author)
            /\ UNCHANGED <<state, queue_vars, ready_queue, draft_vars>>
       ELSE IF Len(ready_queue) + 1 < QueueCap
       THEN /\ ready_queue' = Append(ready_queue, author)
            /\ out' = Say("ready", "is_ready", author)
            /\ UNCHANGED <<state, queue_vars, draft_vars>>
       ELSE IF \/ \E u \in Range(team_a) \cup Range(team_b) : u \notin DOMAIN steam_id_cache
               \/ team_a = <<>> \/ team_b = <<>>
       THEN \* steam_id_cache.get().unwrap() on None, or the [..len - 1] slice
            /\ ready_queue' = Append(ready_queue, author)
            /\ out' = Panic("ready", author, <<>>)
            /\ UNCHANGED <<state, queue_vars, draft_vars>>
       ELSE LET ids_a == team_steam_ids(team_a)
                ids_b == team_steam_ids(team_b)
                team_ct == IF team_b_start_side = "ct" THEN ids_b ELSE ids_a
                team_t == IF team_b_start_side = "ct" THEN ids_a ELSE ids_b
                post == Call("start_match", team_t, team_ct, launch)
            IN  IF launch = "transport_error"
                THEN \* send().await.unwrap() on Err
                     /\ ready_queue' = Append(ready_queue, author)
                     /\ out' = Panic("ready", author, <<post>>)
                     /\ UNCHANGED <<state, queue_vars, draft_vars>>
                ELSE /\ out' = Out("ready",
                                   IF launch = "success" THEN "server_started"
                                   ELSE "server_failed_to_start",
                                   NoUser,
                                   <<post,
                                     Call("send_msg",
                                          IF launch = "success"
                                          THEN gotv_url(server_url) ELSE <<>>,
                                          server_url, launch),
                                     Call("move_members", team_a, <<>>, "ok"),
                                     Call("move_members", team_b, <<>>, "ok"),
                                     Call("console", "mp_teamname_1",
                                          IF team_b_start_side = "ct" THEN captain_b
                                          ELSE captain_a, "ok"),
                                     Call("console", "mp_teamname_2",
                                          IF team_b_start_side = "ct" THEN captain_a
                                          ELSE captain_b, "ok")>>)
                     \* reset to queue state
                     /\ user_queue' = <<>>
                     /\ ready_queue' = <<>>
                     /\ team_a' = <<>>
                     /\ team_b' = <<>>
                     /\ captain_a' = NoUser
                     /\ captain_b' = NoUser
                     /\ current_picker' = NoUser
                     /\ state' = "Queue"
                     /\ queue_msgs' = {}
                     /\ UNCHANGED team_b_start_side
    /\ UNCHANGED <<store_vars, task_vars>>
\* Variant with the two sides of the launch exchanged.
handle_ready_sides_swapped(author, launch) ==
    /\ Unlocked
    /\ IF state # "Ready"
       THEN /\ out' = Say("ready", "draft_not_completed", author)
            /\ UNCHANGED <<state, queue_vars, ready_queue, draft_vars>>
       ELSE IF ~Contains(user_queue, author)
       THEN /\ out' = Say("ready", "not_in_queue", author)
            /\ UNCHANGED <<state, queue_vars, ready_queue, draft_vars>>
       ELSE IF Contains(ready_queue, author)
       THEN /\ out' = Say("ready", "already_ready", author)
            /\ UNCHANGED <<state, queue_vars, ready_queue, draft_vars>>
       ELSE IF Len(ready_queue) + 1 < QueueCap
       THEN /\ ready_queue' = Append(ready_queue, author)
            /\ out' = Say("ready", "is_ready", author)
            /\ UNCHANGED <<state, queue_vars, draft_vars>>
       ELSE IF \/ \E u \in Range(team_a) \cup Range(team_b) : u \notin DOMAIN steam_id_cache
               \/ team_a = <<>> \/ team_b = <<>>
       THEN \* steam_id_cache.get().unwrap() on None, or the [..len - 1] slice
            /\ ready_queue' = Append(ready_queue, author)
            /\ out' = Panic("ready", author, <<>>)
            /\ UNCHANGED <<state, queue_vars, draft_vars>>
       ELSE LET ids_a == team_steam_ids(team_a)
                ids_b == team_steam_ids(team_b)
                team_ct == IF team_b_start_side = "ct" THEN ids_a ELSE ids_b
                team_t == IF team_b_start_side = "ct" THEN ids_b ELSE ids_a
                post == Call("start_match", team_t, team_ct, launch)
            IN  IF launch = "transport_error"
                THEN \* send().await.unwrap() on Err
                     /\ ready_queue' = Append(ready_queue, author)
                     /\ out' = Panic("ready", author, <<post>>)
                     /\ UNCHANGED <<state, queue_vars, draft_vars>>
                ELSE /\ out' = Out("ready",
                                   IF launch = "success" THEN "server_started"
                                   ELSE "server_failed_to_start",
                                   NoUser,
                                   <<post,
                                     Call("send_msg",
                                          IF launch = "success"
                                          THEN gotv_url(server_url) ELSE <<>>,
                                          server_url, launch),
                                     Call("move_members", team_a, <<>>, "ok"),
                                     Call("move_members", team_b, <<>>, "ok"),
                                     Call("console", "mp_teamname_1",
                                          IF team_b_start_side = "ct" THEN captain_b
                                          ELSE captain_a, "ok"),
                                     Call("console", "mp_teamname_2",
                                          IF team_b_start_side = "ct" THEN captain_a
                                          ELSE captain_b, "ok")>>)
                     \* reset to queue state
                     /\ user_queue' = <<>>
                     /\ ready_queue' = <<>>
                     /\ team_a' = <<>>
                     /\ team_b' = <<>>
                     /\ captain_a' = NoUser
                     /\ captain_b' = NoUser
                     /\ current_picker' = NoUser
                     /\ state' = "Queue"
                     /\ queue_msgs' = {}
                     /\ UNCHANGED team_b_start_side
    /\ UNCHANGED <<store_vars, task_vars>>
\* `launch` is the outcome of the POST that starts the match.
\* Variant that turns the command down only in phase Queue.
handle_ready_wrong_phase(author, launch) ==
    /\ Unlocked
    /\ IF state = "Queue"
       THEN /\ out' = Say("ready", "draft_not_completed", author)
            /\ UNCHANGED <<state, queue_vars, ready_queue, draft_vars>>
       ELSE IF ~Contains(user_queue, author)
       THEN /\ out' = Say("ready", "not_in_queue", author)
            /\ UNCHANGED <<state, queue_vars, ready_queue, draft_vars>>
       ELSE IF Contains(ready_queue, author)
       THEN /\ out' = Say("ready", "already_ready", author)
            /\ UNCHANGED <<state, queue_vars, ready_queue, draft_vars>>
       ELSE IF Len(ready_queue) + 1 < QueueCap
       THEN /\ ready_queue' = Append(ready_queue, author)
            /\ out' = Say("ready", "is_ready", author)
            /\ UNCHANGED <<state, queue_vars, draft_vars>>
       ELSE IF \/ \E u \in Range(team_a) \cup Range(team_b) : u \notin DOMAIN steam_id_cache
               \/ team_a = <<>> \/ team_b = <<>>
       THEN \* steam_id_cache.get().unwrap() on None, or the [..len - 1] slice
            /\ ready_queue' = Append(ready_queue, author)
            /\ out' = Panic("ready", author, <<>>)
            /\ UNCHANGED <<state, queue_vars, draft_vars>>
       ELSE LET ids_a == team_steam_ids(team_a)
                ids_b == team_steam_ids(team_b)
                team_ct == IF team_b_start_side = "ct" THEN ids_b ELSE ids_a
                team_t == IF team_b_start_side = "ct" THEN ids_a ELSE ids_b
                post == Call("start_match", team_t, team_ct, launch)
            IN  IF launch = "transport_error"
                THEN \* send().await.unwrap() on Err
                     /\ ready_queue' = Append(ready_queue, author)
                     /\ out' = Panic("ready", author, <<post>>)
                     /\ UNCHANGED <<state, queue_vars, draft_vars>>
                ELSE /\ out' = Out("ready",
                                   IF launch = "success" THEN "server_started"
                                   ELSE "server_failed_to_start",
                                   NoUser,
                                   <<post,
                                     Call("send_msg",
                                          IF launch = "success"
                                          THEN gotv_url(server_url) ELSE <<>>,
                                          server_url, launch),
                                     Call("move_members", team_a, <<>>, "ok"),
                                     Call("move_members", team_b, <<>>, "ok"),
                                     Call("console", "mp_teamname_1",
                                          IF team_b_start_side = "ct" THEN captain_b
                                          ELSE captain_a, "ok"),
                                     Call("console", "mp_teamname_2",
                                          IF team_b_start_side = "ct" THEN captain_a
                                          ELSE captain_b, "ok")>>)
                     \* reset to queue state
                     /\ user_queue' = <<>>
                     /\ ready_queue' = <<>>
                     /\ team_a' = <<>>
                     /\ team_b' = <<>>
                     /\ captain_a' = NoUser
                     /\ captain_b' = NoUser
                     /\ current_picker' = NoUser
                     /\ state' = "Queue"
                     /\ queue_msgs' = {}
                     /\ UNCHANGED team_b_start_side
    /\ UNCHANGED <<store_vars, task_vars>>
handle_ready(author, launch) ==
    /\ Unlocked
    /\ IF state # "Ready"
       THEN /\ out' = Say("ready", "draft_not_completed", author)
            /\ UNCHANGED <<state, queue_vars, ready_queue, draft_vars>>
       ELSE IF ~Contains(user_queue, author)
       THEN /\ out' = Say("ready", "not_in_queue", author)
            /\ UNCHANGED <<state, queue_vars, ready_queue, draft_vars>>
       ELSE IF Contains(ready_queue, author)
       THEN /\ out' = Say("ready", "already_ready", author)
            /\ UNCHANGED <<state, queue_vars, ready_queue, draft_vars>>
       ELSE IF Len(ready_queue) + 1 < QueueCap
       THEN /\ ready_queue' = Append(ready_queue, author)
            /\ out' = Say("ready", "is_ready", author)
            /\ UNCHANGED <<state, queue_vars, draft_vars>>
       ELSE IF \/ \E u \in Range(team_a) \cup Range(team_b) : u \notin DOMAIN steam_id_cache
               \/ team_a = <<>> \/ team_b = <<>>
       THEN \* steam_id_cache.get().unwrap() on None, or the [..len - 1] slice
            /\ ready_queue' = Append(ready_queue, author)
            /\ out' = Panic("ready", author, <<>>)
            /\ UNCHANGED <<state, queue_vars, draft_vars>>
       ELSE LET ids_a == team_steam_ids(team_a)
                ids_b == team_steam_ids(team_b)
                team_ct == IF team_b_start_side = "ct" THEN ids_b ELSE ids_a
                team_t == IF team_b_start_side = "ct" THEN ids_a ELSE ids_b
                post == Call("start_match", team_t, team_ct, launch)
            IN  IF launch = "transport_error"
                THEN \* send().await.unwrap() on Err
                     /\ ready_queue' = Append(ready_queue, author)
                     /\ out' = Panic("ready", author, <<post>>)
                     /\ UNCHANGED <<state, queue_vars, draft_vars>>
                ELSE /\ out' = Out("ready",
                                   IF launch = "success" THEN "server_started"
                                   ELSE "server_failed_to_start",
                                   NoUser,
                                   <<post,
                                     Call("send_msg",
                                          IF launch = "success"
                                          THEN gotv_url(server_url) ELSE <<>>,
                                          server_url, launch),
                                     Call("move_members", team_a, <<>>, "ok"),
                                     Call("move_members", team_b, <<>>, "ok"),
                                     Call("console", "mp_teamname_1",
                                          IF team_b_start_side = "ct" THEN captain_b
                                          ELSE captain_a, "ok"),
                                     Call("console", "mp_teamname_2",
                                          IF team_b_start_side = "ct" THEN captain_a
                                          ELSE captain_b, "ok")>>)
                     \* reset to queue state
                     /\ user_queue' = <<>>
                     /\ ready_queue' = <<>>
                     /\ team_a' = <<>>
                     /\ team_b' = <<>>
                     /\ captain_a' = NoUser
                     /\ captain_b' = NoUser
                     /\ current_picker' = NoUser
                     /\ state' = "Queue"
                     /\ queue_msgs' = {}
                     /\ UNCHANGED team_b_start_side
    /\ UNCHANGED <<store_vars, task_vars>>

\* ---------------------------------------------------------- handle_unready
handle_unready(author) ==
    /\ Unlocked
    /\ IF state # "Ready"
       THEN /\ out' = Say("unready", "draft_not_completed", author)
            /\ UNCHANGED ready_queue
       ELSE IF ~Contains(user_queue, author)
       THEN /\ out' = Say("unready", "not_in_queue", author)
            /\ UNCHANGED ready_queue
       ELSE IF ~Contains(ready_queue, author)
       THEN \* position().unwrap() on None
            /\ out' = Panic("unready", author, <<>>)
            /\ UNCHANGED ready_queue
       ELSE /\ ready_queue' = RemoveAt(ready_queue, Position(ready_queue, author))
            /\ out' = Say("unready", "no_longer_ready", author)
    /\ UNCHANGED <<state, queue_vars, draft_vars, store_vars, task_vars>>

\* ----------------------------------------------------------- handle_cancel
\* Variant that resets the draft but forgets the ready list.
handle_cancel_keeps_ready(author) ==
    /\ Unlocked
    /\ IF ~admin_check(author)
       THEN /\ out' = Say("cancel", "requires_role", author)
            /\ UNCHANGED <<state, ready_queue, draft_vars>>
       ELSE IF state = "Queue"
       THEN /\ out' = Say("cancel", "only_valid_during_start", author)
            /\ UNCHANGED <<state, ready_queue, draft_vars>>
       ELSE /\ team_a' = <<>>
            /\ team_b' = <<>>
            /\ captain_a' = NoUser
            /\ captain_b' = NoUser
            /\ current_picker' = NoUser
            /\ state' = "Queue"
            /\ UNCHANGED <<ready_queue, team_b_start_side>>
            /\ out' = Say("cancel", "start_cancelled", author)
    /\ UNCHANGED <<queue_vars, store_vars, task_vars>>
\* Variant that also turns the command down in phase MapPick.
handle_cancel_after_vote(author) ==
    /\ Unlocked
    /\ IF ~admin_check(author)
       THEN /\ out' = Say("cancel", "requires_role", author)
            /\ UNCHANGED <<state, ready_queue, draft_vars>>
       ELSE IF state \in {"Queue", "MapPick"}
       THEN /\ out' = Say("cancel", "only_valid_during_start", author)
            /\ UNCHANGED <<state, ready_queue, draft_vars>>
       ELSE /\ ready_queue' = <<>>
            /\ team_a' = <<>>
            /\ team_b' = <<>>
            /\ captain_a' = NoUser
            /\ captain_b' = NoUser
            /\ current_picker' = NoUser
            /\ state' = "Queue"
            /\ UNCHANGED team_b_start_side
            /\ out' = Say("cancel", "start_cancelled", author)
    /\ UNCHANGED <<queue_vars, store_vars, task_vars>>
handle_cancel(author) ==
    /\ Unlocked
    /\ IF ~admin_check(author)
       THEN /\ out' = Say("cancel", "requires_role", author)
            /\ UNCHANGED <<state, ready_queue, draft_vars>>
       ELSE IF state = "Queue"
       THEN /\ out' = Say("cancel", "only_valid_during_start", author)
            /\ UNCHANGED <<state, ready_queue, draft_vars>>
       ELSE /\ ready_queue' = <<>>
            /\ team_a' = <<>>
            /\ team_b' = <<>>
            /\ captain_a' = NoUser
            /\ captain_b' = NoUser
            /\ current_picker' = NoUser
            /\ state' = "Queue"
            /\ UNCHANGED team_b_start_side
            /\ out' = Say("cancel", "start_cancelled", author)
    /\ UNCHANGED <<queue_vars, store_vars, task_vars>>

\* ------------------------------------------------------------- the inputs
\* Mention lists of a .recoverqueue: distinct users among the first actor,
\* the first filler and the admin.
Mentionable == {1, Min(Fillers), Admin}
MentionLists == {m \in [1..MaxMentions -> Mentionable] : NoDup(m)}
\* Arguments of a .steamid: none, the user's own id, a malformed one.
SteamIdArgs(p) == {<<>>, SteamIdStr("0", p), SteamIdStr("9", p)}
\* Outcomes of a call to the server-control API.
ApiOutcomes == {"success", "failure_status", "transport_error"}
\* Reaction counts read back for a ballot: one per symbol, each at least the
\* bot's own reaction; <<>> when the ballot is empty or cannot be fetched.
VoteResults == {<<>>} \cup [1..Len(ballot) -> 1..MaxVotes]
\* The users on a team.
Picked == Range(team_a) \cup Range(team_b)
\* The first user of the queue that is on no team, as a mention list.
FirstUnpicked ==
    LET I == {i \in 1..Len(user_queue) : user_queue[i] \notin Picked}
    IN  IF I = {} THEN {} ELSE {<<user_queue[Min(I)]>>}

\* The users of a sequence all have a smaller id than p.
Above(p, s) == \A i \in 1..Len(s) : s[i] < p
\* The next filler to join: the lowest one not in the queue.
NextFiller(p) == Fillers \ Range(user_queue) # {} /\ p = Min(Fillers \ Range(user_queue))
\* The next filler to act on S: the lowest queued filler not in S.
NextIn(p, S) ==
    LET F == (Fillers \cap Range(user_queue)) \ S IN F # {} /\ p = Min(F)
Captains == {captain_a, captain_b} \ {NoUser}
\* The outcome of the launch is drawn only when this .ready can launch.
LaunchOutcomes ==
    IF state = "Ready" /\ Len(ready_queue) + 1 >= QueueCap THEN ApiOutcomes
    ELSE {"success"}

\* The whole match set-up.  The queue fills in ascending order of id (fillers
\* without gaps and only in phase Queue); captain, pick, side and ready
\* commands are issued in their own phase; the admin clears, starts and
\* cancels at any time.
Next ==
    \/ \E p \in Actors \cup Fillers :
          /\ p \in Actors \/ (state = "Queue" /\ NextFiller(p))
          /\ Above(p, user_queue)
          /\ Join(p, FALSE)
    \/ \E p \in Actors : state = "Queue" /\ handle_leave(p)
    \/ \E t \in Actors : state = "Queue" /\ handle_kick(Admin, <<t>>)
    \/ handle_clear(Admin)
    \/ \E c \in BOOLEAN : handle_start(Admin, c)
    \/ \E r \in VoteResults, rnd \in 0..Len(ballot), s \in ApiOutcomes :
          start_finish(r, rnd, s)
    \/ \E p \in Actors \cup Fillers, flip \in {0, 1} :
          /\ state = "CaptainPick"
          /\ p \in Actors \/ NextIn(p, {captain_a})
          /\ handle_captain(p, flip)
    \/ \E p \in Captains :
          \E m \in {<<>>, <<captain_a>>, <<Admin>>} \cup FirstUnpicked :
             state = "Draft" /\ handle_pick(p, m)
    \/ \E p \in Captains : state = "SidePick" /\ handle_ct_option(p)
    \/ \E p \in Captains : state = "SidePick" /\ handle_t_option(p)
    \/ \E p \in Actors \cup Fillers, l \in LaunchOutcomes :
          /\ state = "Ready"
          /\ p \in Actors \/ NextIn(p, Range(ready_queue))
          /\ handle_ready(p, l)
    \/ \E p \in Actors : state = "Ready" /\ handle_unready(p)
    \/ handle_cancel(Admin)

Spec == Init /\ [][Next]_vars

\* The queue commands.  The first actor joins (with or without a note),
\* leaves, is kicked and recovered at any time and at any queue position; a
\* further actor joins behind lower ids only; the admin (who has no steam
\* id) tries to join; the fillers join in turn; start and cancel move the
\* bot out of and back into phase Queue.
NextQueue ==
    \/ \E p \in Actors, q \in BOOLEAN : (q => p = 1) /\ (p = 1 \/ Above(p, user_queue)) /\ Join(p, q)
    \/ Join(Admin, FALSE)
    \/ \E p \in Fillers : state = "Queue" /\ NextFiller(p) /\ Join(p, FALSE)
    \/ \E p \in Actors : handle_leave(p)
    \/ \E m \in {<<>>} \cup {<<t>> : t \in Actors \cup {Admin}} : handle_kick(Admin, m)
    \/ handle_clear(Admin)
    \/ \E m \in MentionLists : handle_recover_queue(Admin, m)
    \/ recover_join
    \/ handle_start(Admin, TRUE)
    \/ \E r \in VoteResults, rnd \in 0..Len(ballot) : start_finish(r, rnd, "success")
    \/ handle_cancel(Admin)

SpecQueue == Init /\ [][NextQueue]_vars

\* The draft commands in and out of their phase.  The queue fills in
\* ascending order of id and the admin starts the match; the issuers (the
\* first actor, the first filler and the admin, who is never queued) send
\* the captain, pick, side, ready and unready commands in every phase, the
\* other fillers only ready up in turn; the admin cancels.
Issuers == {1, Min(Fillers), Admin}
NextReject ==
    \/ \E p \in {1} \cup Fillers :
          /\ state = "Queue"
          /\ p = 1 \/ NextFiller(p)
          /\ Above(p, user_queue)
          /\ Join(p, FALSE)
    \/ handle_start(Admin, TRUE)
    \/ \E r \in VoteResults : start_finish(r, 0, "success")
    \/ \E p \in Issuers, flip \in {0, 1} : handle_captain(p, flip)
    \/ \E p \in Issuers :
          \E m \in {<<>>, <<Admin>>, <<Min(Fillers)>>} \cup FirstUnpicked :
             handle_pick(p, m)
    \/ \E p \in Issuers : handle_ct_option(p)
    \/ \E p \in Issuers : handle_t_option(p)
    \/ \E p \in Issuers \cup Fillers :
          /\ p \in Issuers \/ (state = "Ready" /\ NextIn(p, Range(ready_queue)))
          /\ handle_ready(p, "success")
    \/ \E p \in Issuers : handle_unready(p)
    \/ handle_cancel(Admin)

SpecReject == Init /\ [][NextReject]_vars

\* The map commands.  The admin adds the first name that is not in the pool,
\* or again the first map of the pool; removes the last map of the pool, the
\* first one of a pool of two, or a name that is not in the pool; or leaves
\* the name out.
FirstMap == IF maps = <<>> THEN {} ELSE {maps[1]}
LastMap ==
    IF maps = <<>> THEN {}
    ELSE {maps[Len(maps)]} \cup (IF Len(maps) = 2 THEN {maps[1]} ELSE {})
NextName ==
    LET I == {i \in 1..NumMapNames : ~Contains(maps, MapNameList[i])}
    IN  IF I = {} THEN {} ELSE {MapNameList[Min(I)]}
NextMaps ==
    \/ \E n \in {NoArg} \cup NextName \cup FirstMap, io \in BOOLEAN :
          handle_add_map(Admin, n, io)
    \/ \E n \in {NoArg} \cup NextName \cup LastMap, io \in BOOLEAN :
          handle_remove_map(Admin, n, io)

SpecMaps == Init /\ [][NextMaps]_vars

\* The admin commands sent without the admin role.  The match is set up in
\* the plain order (the queue fills in ascending order of id, the admin
\* starts, the two lowest ids become captains, each pick takes the first
\* free player, captain B chooses a side, the players ready up in turn, the
\* admin cancels at any time); in every phase the first actor and the first
\* filler, who have no admin role, send each admin command.
NonAdmins == {1, Min(Fillers)}
NextQueued(S) ==
    LET F == Range(user_queue) \ S IN IF F = {} THEN {} ELSE {Min(F)}
NextAdmin ==
    \/ \E p \in {1} \cup Fillers :
          /\ state = "Queue"
          /\ p = 1 \/ NextFiller(p)
          /\ Above(p, user_queue)
          /\ Join(p, FALSE)
    \/ handle_start(Admin, TRUE)
    \/ \E r \in VoteResults : start_finish(r, 0, "success")
    \/ \E p \in NextQueued({captain_a}), flip \in {0, 1} :
          state = "CaptainPick" /\ handle_captain(p, flip)
    \/ \E m \in FirstUnpicked : state = "Draft" /\ handle_pick(current_picker, m)
    \/ state = "SidePick" /\ handle_ct_option(captain_b)
    \/ state = "SidePick" /\ handle_t_option(captain_b)
    \/ \E p \in NextQueued(Range(ready_queue)) :
          state = "Ready" /\ handle_ready(p, "success")
    \/ handle_cancel(Admin)
    \/ \E p \in NonAdmins, c \in BOOLEAN : handle_start(p, c)
    \/ \E p \in NonAdmins, m \in {<<>>, <<1>>, <<Min(Fillers)>>} : handle_kick(p, m)
    \/ \E p \in NonAdmins : handle_clear(p)
    \/ \E p \in NonAdmins, m \in MentionLists : handle_recover_queue(p, m)
    \/ \E p \in NonAdmins : handle_cancel(p)
    \/ \E p \in NonAdmins, n \in {NoArg} \cup NextName \cup FirstMap, io \in BOOLEAN :
          handle_add_map(p, n, io)
    \/ \E p \in NonAdmins, n \in {NoArg} \cup NextName \cup LastMap, io \in BOOLEAN :
          handle_remove_map(p, n, io)

SpecAdmin == Init /\ [][NextAdmin]_vars

\* The launch, over the configurations and identity stores the bot can be
\* started with.  A server address is a host without a colon, a colon and a
\* decimal port, written with or without a leading zero.
MaxPort == 20
Ports == (0..MaxPort) \cup {99, 999, 27015, 65535}
Hosts == {<<"h">>, <<"1", ".", "2", ".", "3", ".", "4">>}
Url(host, zeros, port) ==
    host \o <<":">> \o [i \in 1..zeros |-> "0"] \o DigitsOf(port)
LeadingZeros == {0, 1}
ServerUrls == {Url(h, z, n) : h \in Hosts, z \in LeadingZeros, n \in Ports}
\* The universe digit of a steam id: [0-5].
UniverseDigits == <<"0", "1", "2", "3", "4", "5">>
SteamIdCaches ==
    {[p \in 1..(NumPlayers - 1) |-> SteamIdStr(UniverseDigits[((p + k) % 6) + 1], p)] :
        k \in 0..5}
InitLaunch ==
    /\ state = "Queue"
    /\ user_queue = <<>>
    /\ queue_msgs = {}
    /\ ready_queue = <<>>
    /\ captain_a = NoUser
    /\ captain_b = NoUser
    /\ team_a = <<>>
    /\ team_b = <<>>
    /\ current_picker = NoUser
    /\ team_b_start_side = ""
    /\ \/ /\ server_url \in ServerUrls
          /\ steam_id_cache = [p \in 1..(NumPlayers - 1) |-> SteamIdStr("0", p)]
       \/ /\ server_url = DefaultUrl
          /\ steam_id_cache \in SteamIdCaches
    /\ maps = <<"de_dust2", "de_inferno">>
    /\ teamname_cache = <<>>
    /\ files = [steam_ids |-> steam_id_cache, maps |-> maps, teamnames |-> teamname_cache]
    /\ pc = "idle"
    /\ ballot = <<>>
    /\ start_by = NoUser
    /\ recover_pending = <<>>
    /\ recover_by = NoUser
    /\ recover_mentions = <<>>
    /\ out = Say("", "", NoUser)
\* The match is set up in the plain order and launched with every outcome
\* of the start-match call.
NextLaunch ==
    \/ \E p \in {1} \cup Fillers :
          /\ state = "Queue"
          /\ p = 1 \/ NextFiller(p)
          /\ Above(p, user_queue)
          /\ Join(p, FALSE)
    \/ handle_start(Admin, TRUE)
    \/ start_finish([i \in 1..Len(ballot) |-> 1], 0, "success")
    \/ \E p \in NextQueued({captain_a}), flip \in {0, 1} :
          state = "CaptainPick" /\ handle_captain(p, flip)
    \/ \E m \in FirstUnpicked : state = "Draft" /\ handle_pick(current_picker, m)
    \/ state = "SidePick" /\ handle_ct_option(captain_b)
    \/ state = "SidePick" /\ handle_t_option(captain_b)
    \/ \E p \in NextQueued(Range(ready_queue)), l \in LaunchOutcomes :
          state = "Ready" /\ handle_ready(p, l)

SpecLaunch == InitLaunch /\ [][NextLaunch]_vars

\* The ballot over every pool.  The admin adds the first name that is not in
\* the pool and removes the last map (or the first of two), the queue fills
\* in ascending order of id, the admin starts the match and cancels it; each
\* ballot symbol collects one vote.
NextBallot ==
    \/ \E p \in {1} \cup Fillers :
          /\ state = "Queue"
          /\ p = 1 \/ NextFiller(p)
          /\ Above(p, user_queue)
          /\ Join(p, FALSE)
    \/ \E n \in NextName : handle_add_map(Admin, n, TRUE)
    \/ \E n \in LastMap : handle_remove_map(Admin, n, TRUE)
    \/ \E c \in BOOLEAN : handle_start(Admin, c)
    \/ start_finish([i \in 1..Len(ballot) |-> 1], 0, "success")
    \/ handle_cancel(Admin)

SpecBallot == Init /\ [][NextBallot]_vars

\* The commands that change a durable store.  The admin, who has no steam id
\* yet, registers one (none, a valid one, an invalid one); the first actor
\* sets a team name (none, a short one, one of exactly the limit, one over
\* the limit); the admin adds maps while the pool is small and removes the
\* last one; each write of a document succeeds or fails.
MaxStoreMaps == 3
TeamNameArgs ==
    {<<>>, <<"A">>, [i \in 1..MaxTeamName |-> "x"], [i \in 1..(MaxTeamName + 1) |-> "x"]}
NextStore ==
    \/ \E a \in SteamIdArgs(Admin), io \in BOOLEAN :
          handle_steam_id(Admin, a, io)
    \/ \E a \in TeamNameArgs, io \in BOOLEAN :
          handle_teamname(1, a, io)
    \/ \E n \in {NoArg} \cup NextName \cup FirstMap, io \in BOOLEAN :
          Len(maps) < MaxStoreMaps /\ handle_add_map(Admin, n, io)
    \/ \E n \in {NoArg} \cup NextName \cup LastMap, io \in BOOLEAN :
          handle_remove_map(Admin, n, io)

SpecStore == Init /\ [][NextStore]_vars

\* A user without a steam id.  The match is set up in the plain order; the
\* admin, who has no steam id at first, joins in any phase, registers a steam
\* id (none, a valid one, a malformed one; the write succeeds or fails) and
\* recovers a queue that may name the admin while the queue is open.
NextIdentity ==
    \/ \E p \in {1} \cup Fillers :
          /\ state = "Queue"
          /\ p = 1 \/ NextFiller(p)
          /\ Above(p, user_queue)
          /\ Join(p, FALSE)
    \/ Join(Admin, FALSE)
    \/ \E a \in SteamIdArgs(Admin), io \in BOOLEAN : handle_steam_id(Admin, a, io)
    \/ \E m \in MentionLists : state = "Queue" /\ handle_recover_queue(Admin, m)
    \/ recover_join
    \/ handle_start(Admin, TRUE)
    \/ start_finish([i \in 1..Len(ballot) |-> 1], 0, "success")
    \/ \E p \in NextQueued({captain_a}), flip \in {0, 1} :
          state = "CaptainPick" /\ handle_captain(p, flip)
    \/ \E m \in FirstUnpicked : state = "Draft" /\ handle_pick(current_picker, m)
    \/ state = "SidePick" /\ handle_ct_option(captain_b)
    \/ \E p \in NextQueued(Range(ready_queue)) :
          state = "Ready" /\ handle_ready(p, "success")
    \/ handle_cancel(Admin)

SpecIdentity == Init /\ [][NextIdentity]_vars

\* ------------------------------------------------------------ properties
\* The mention lists a command can carry in the properties below: none, or
\* one user.
OneMention == {<<>>} \cup {<<t>> : t \in Players}

\* C1: after any sequence of join, leave, kick, clear and recover commands,
\* in any phase, the queue holds between 0 and 10 players and no player is
\* in it more than once.
C1_QueueBounded ==
    /\ Len(user_queue) \in 0..QueueCap
    /\ NoDup(user_queue)
\* A second join of a queued player was turned down outside phase Queue.
C1_Witness ==
    /\ state # "Queue"
    /\ out.cmd = "join" /\ out.msg = "already_in_queue"
    /\ Contains(user_queue, out.who)

\* C2: a join issued while the queue holds 10 players fails, whether or not
\* the player is queued, and leaves the queue and the notes unchanged.
C2_JoinOnFull ==
    [][ (/\ Len(user_queue) = QueueCap
         /\ \/ recover_join
            \/ \E p \in Players, q \in BOOLEAN : Join(p, q))
        => (/\ UNCHANGED queue_vars
            /\ out'.msg \in {"queue_full", "steamid_not_found"}) ]_vars
\* A player outside the full queue was told that the queue is full.
C2_Witness ==
    /\ Len(user_queue) = QueueCap
    /\ out.cmd = "join" /\ out.msg = "queue_full"
    /\ ~Contains(user_queue, out.who)

\* C3: an admin start is accepted only in phase Queue with exactly 10 queued
\* players; otherwise it is rejected and phase, queue, draft and ready list
\* are unchanged.
C3_StartGuard ==
    [][ \A c \in BOOLEAN :
           handle_start(Admin, c) =>
              IF state = "Queue" /\ Len(user_queue) = QueueCap
              THEN state' = "MapPick"
              ELSE /\ UNCHANGED <<state, queue_vars, ready_queue, draft_vars>>
                   /\ out'.msg \in {"already_entered", "queue_not_full"} ]_vars
\* A start was rejected with nine players queued.
C3_Witness ==
    /\ out.cmd = "start" /\ out.msg = "queue_not_full"
    /\ state = "Queue"
    /\ Len(user_queue) = QueueCap - 1

\* The set-map call of the last start sequence, if it got that far.
SetMapCall == out.calls[2]
StartResolved == out.cmd = "start" /\ Len(out.calls) = 2

\* C4: every change of phase is one of Queue -> MapPick (start accepted),
\* MapPick -> CaptainPick (vote resolved and map set), CaptainPick -> Draft
\* (second captain), Draft -> SidePick (both teams at 5), SidePick -> Ready
\* (captain B chose a side), Ready -> Queue (reset after launch), or
\* non-Queue -> Queue (admin cancel).
C4_PhaseChanges ==
    [][ state' # state =>
        \/ /\ state = "Queue" /\ state' = "MapPick"
           /\ out'.cmd = "start"
        \/ /\ state = "MapPick" /\ state' = "CaptainPick"
           /\ StartResolved' /\ SetMapCall'.status = "success"
        \/ /\ state = "CaptainPick" /\ state' = "Draft"
           /\ out'.cmd = "captain"
           /\ captain_a' # NoUser /\ captain_b' # NoUser
        \/ /\ state = "Draft" /\ state' = "SidePick"
           /\ out'.cmd = "pick"
           /\ Len(team_a') = TeamSize /\ Len(team_b') = TeamSize
        \/ /\ state = "SidePick" /\ state' = "Ready"
           /\ out'.cmd \in {"ct", "t"}
           /\ team_b_start_side' = out'.cmd
        \/ /\ state = "Ready" /\ state' = "Queue"
           /\ out'.cmd = "ready"
           /\ Len(out'.calls) > 0 /\ out'.calls[1].api = "start_match"
        \/ /\ state # "Queue" /\ state' = "Queue"
           /\ out'.cmd = "cancel" /\ out'.who = Admin ]_vars

\* C5: an admin cancel in a phase other than Queue clears the ready list,
\* both captains, both teams and the current picker, sets the phase to Queue
\* and leaves the queue unchanged; in phase Queue it is rejected and changes
\* nothing.
C5_Cancel ==
    [][ handle_cancel(Admin) =>
           IF state # "Queue"
           THEN /\ ready_queue' = <<>>
                /\ captain_a' = NoUser /\ captain_b' = NoUser
                /\ team_a' = <<>> /\ team_b' = <<>>
                /\ current_picker' = NoUser
                /\ state' = "Queue"
                /\ user_queue' = user_queue
           ELSE /\ UNCHANGED <<state, queue_vars, ready_queue, draft_vars,
                               store_vars>>
                /\ out'.msg = "only_valid_during_start" ]_vars
\* A cancel was accepted and left the full queue in place.
C5_Witness ==
    /\ out.cmd = "cancel" /\ out.msg = "start_cancelled"
    /\ state = "Queue"
    /\ Len(user_queue) = QueueCap
    /\ ready_queue = <<>> /\ team_a = <<>> /\ team_b = <<>>

\* The start-match calls among the calls of the last handler run.
StartMatchCalls(calls) == {i \in 1..Len(calls) : calls[i].api = "start_match"}

\* C6: when a ready makes the ready list reach 10, exactly one start-match
\* call is attempted and, whatever the outcome of the launch (success,
\* non-success status, transport failure), the handler ends with queue,
\* ready list and draft (captains, teams, picker) cleared and phase Queue.
C6_LaunchResets ==
    [][ (state = "Ready" /\ Len(ready_queue) = QueueCap - 1) =>
        \A p \in Range(user_queue) \ Range(ready_queue), l \in ApiOutcomes :
           handle_ready(p, l)
           => (/\ Cardinality(StartMatchCalls(out'.calls)) = 1
               /\ user_queue' = <<>> /\ ready_queue' = <<>>
               /\ team_a' = <<>> /\ team_b' = <<>>
               /\ captain_a' = NoUser /\ captain_b' = NoUser
               /\ current_picker' = NoUser
               /\ state' = "Queue") ]_vars

\* C7: in phase Draft a pick by the captain who is not the current picker
\* fails and leaves both teams and the current picker unchanged, whichever
\* target is named.
C7_NotYourTurn ==
    [][ state = "Draft" =>
           \A p \in {captain_a, captain_b} \ {current_picker}, m \in OneMention :
              handle_pick(p, m)
              => (/\ UNCHANGED <<team_a, team_b, current_picker, state>>
                  /\ out'.msg \in {"mention_a_user", "user_not_in_queue",
                                   "not_your_turn"}) ]_vars
\* The other captain named a free queued player and was told to wait.
C7_Witness ==
    /\ state = "Draft"
    /\ out.cmd = "pick" /\ out.msg = "not_your_turn"
    /\ out.who \in {captain_a, captain_b} /\ out.who # current_picker
    /\ Len(team_a) + Len(team_b) > 2

\* C8: from the seeded draft over a queue of 10, successful picks alternate
\* captain A, captain B, ... starting with captain A; the phase leaves Draft
\* for SidePick exactly on the 8th successful pick, and then both teams hold
\* 5, are disjoint and together equal the queue.
C8_Draft ==
    [][ (/\ state = "Draft" /\ state' # "Queue"
         /\ <<team_a, team_b>>' # <<team_a, team_b>>)
        => (/\ IF Len(team_a) = Len(team_b)
               THEN /\ current_picker = captain_a
                    /\ Len(team_a') = Len(team_a) + 1 /\ team_b' = team_b
                    /\ current_picker' = captain_b
               ELSE /\ current_picker = captain_b
                    /\ Len(team_b') = Len(team_b) + 1 /\ team_a' = team_a
                    /\ current_picker' = captain_a
            /\ state' = "SidePick" <=> Len(team_a) + Len(team_b) = 2 + 7
            /\ state' = "SidePick" =>
                  /\ Len(team_a') = TeamSize /\ Len(team_b') = TeamSize
                  /\ Range(team_a') \cap Range(team_b') = {}
                  /\ NoDup(team_a') /\ NoDup(team_b')
                  /\ Range(team_a') \cup Range(team_b') = Range(user_queue')) ]_vars

C10_ReadyInQueue == Range(ready_queue) \subseteq Range(user_queue)

\* C11: in every reachable state the two teams have no player in common,
\* neither team holds a player twice, and each team holds at most 5 players.
C11_TeamsDisjoint ==
    /\ Range(team_a) \cap Range(team_b) = {}
    /\ NoDup(team_a) /\ NoDup(team_b)
    /\ Len(team_a) <= TeamSize /\ Len(team_b) <= TeamSize
\* With team A full, the pick of a player already on a team was turned down.
C11_Witness ==
    /\ state = "Draft"
    /\ out.cmd = "pick" /\ out.msg = "already_on_a_team"
    /\ Len(team_a) = TeamSize /\ Len(team_b) = TeamSize - 1

\* C12: in every reachable state |teamA| + |teamB| <= |queue| and every team
\* member is in the queue, also after an admin clear or recover issued
\* during CaptainPick, Draft, SidePick or Ready.
C12_TeamsInQueue ==
    /\ Len(team_a) + Len(team_b) <= Len(user_queue)
    /\ Range(team_a) \cup Range(team_b) \subseteq Range(user_queue)

\* C13: whenever both captains are set they are different players, and a
\* captain command by the player who is already captain A is rejected and
\* leaves the draft (and the phase) unchanged.
C13_DistinctCaptains ==
    [][ /\ (captain_a' # NoUser /\ captain_b' # NoUser) => captain_a' # captain_b'
        /\ captain_a # NoUser =>
              \A flip \in {0, 1} :
                 handle_captain(captain_a, flip)
                 => (/\ UNCHANGED <<state, draft_vars>>
                     /\ out'.msg \in {"not_captain_pick_phase", "not_in_queue",
                                      "already_captain"}) ]_vars
\* Captain A sent the captain command a second time and was turned down.
C13_Witness ==
    /\ state = "CaptainPick"
    /\ out.cmd = "captain" /\ out.msg = "already_captain"
    /\ out.who = captain_a /\ captain_b = NoUser

\* C14: after any sequence of admin addmap and removemap commands the pool
\* holds no map name twice and at most 26 names; an addmap of a name already
\* in the pool, or on a pool of 26, is rejected and leaves the pool (and its
\* file) unchanged.
C14_MapPool ==
    [][ /\ NoDup(maps') /\ Len(maps') <= MaxMaps
        /\ \A n \in MapNames, io \in BOOLEAN :
              (/\ Contains(maps, n) \/ Len(maps) = MaxMaps
               /\ handle_add_map(Admin, n, io))
              => (/\ UNCHANGED <<maps, files>>
                  /\ out'.msg \in {"max_maps_reached", "map_already_exists"}) ]_vars
\* A new name was turned down on a pool of 26.
C14_Witness ==
    /\ Len(maps) = MaxMaps
    /\ out.cmd = "addmap" /\ out.msg = "max_maps_reached"
    /\ \E n \in MapNames : ~Contains(maps, n)

\* C15: leave and kick take effect only in phase Queue; in any other phase
\* they are rejected and the queue is unchanged, and in phase Queue a leave
\* or kick of a player who is not queued fails and leaves the queue
\* unchanged.
C15_LeaveKickGuard ==
    [][ \A p \in Players :
           (/\ out'.cmd \in {"leave", "kick"}
            /\ state # "Queue" \/ ~Contains(user_queue, p)) =>
              /\ handle_leave(p)
                 => (/\ UNCHANGED queue_vars
                     /\ out'.msg \in {"cannot_leave_after_start", "not_in_queue"})
              /\ handle_kick(Admin, <<p>>)
                 => (/\ UNCHANGED queue_vars
                     /\ out'.msg \in {"cannot_kick_after_start", "not_in_queue"}) ]_vars
\* A queued player tried to leave during the captain pick.
C15_Witness ==
    /\ state = "CaptainPick"
    /\ out.cmd = "leave" /\ out.msg = "cannot_leave_after_start"
    /\ Contains(user_queue, out.who)

\* C16: after a successful leave by p, or a successful kick of p, p is not
\* in the queue and no note is stored for p, and every other queued player
\* keeps position order and note.
C16_LeaveKickEffect ==
    [][ \A p \in Players :
           (/\ state = "Queue" /\ Contains(user_queue, p)
            /\ handle_leave(p) \/ handle_kick(Admin, <<p>>))
           => (/\ user_queue' = RemoveAt(user_queue, Position(user_queue, p))
               /\ ~Contains(user_queue', p)
               /\ queue_msgs' = queue_msgs \ {p}) ]_vars

\* The users of a mention list that have a steam id, in list order.
Registered(mentions) == SelectSeq(mentions, LAMBDA u : u \in DOMAIN steam_id_cache)

\* C17: a recover is atomic with respect to other commands: when it
\* completes, the queue is exactly the listed players that have an identity
\* mapping, in list order, even when other players join concurrently.
C17_RecoverAtomic ==
    [][ (recover_pending # <<>> /\ recover_pending' = <<>>)
        => user_queue' = Registered(recover_mentions) ]_vars

\* C18: in phase CaptainPick the first accepted captain command sets captain
\* A and leaves the phase unchanged; the second accepted one, by a different
\* queued player, ends with phase Draft, teamA = [captainA], teamB =
\* [captainB], currentPicker = captainA and the two registrants as the two
\* captains; both assignments of the registrants are possible outcomes.
C18_CaptainPick ==
    [][ state = "CaptainPick" =>
          \A p \in Range(user_queue) \ {captain_a} :
             /\ \A flip \in {0, 1} :
                   handle_captain(p, flip) =>
                      IF captain_a = NoUser
                      THEN /\ captain_a' = p /\ captain_b' = NoUser
                           /\ UNCHANGED <<state, team_a, team_b>>
                      ELSE /\ state' = "Draft"
                           /\ team_a' = <<captain_a'>> /\ team_b' = <<captain_b'>>
                           /\ current_picker' = captain_a'
                           /\ {captain_a', captain_b'} = {captain_a, p}
                           /\ captain_a' # captain_b'
             /\ captain_a # NoUser =>
                   \A first \in {captain_a, p} :
                      ENABLED (\E flip \in {0, 1} :
                                  handle_captain(p, flip) /\ captain_a' = first) ]_vars
\* The draft started with the second registrant as captain A.
C18_Witness ==
    /\ state = "Draft"
    /\ out.cmd = "captain" /\ out.msg = "draft_started"
    /\ team_a = <<captain_a>> /\ team_b = <<captain_b>>
    /\ current_picker = captain_a
    /\ captain_a > captain_b /\ captain_b \in Fillers

\* C19: a side choice (CT or T) is accepted only in phase SidePick and only
\* from captain B; when accepted it records the side as teamBStartSide and
\* sets the phase to Ready without changing queue, teams or ready list; a
\* choice by any other player or in any other phase is rejected and changes
\* nothing.
C19_SideChoice ==
    [][ \A p \in Players, cmd \in {"ct", "t"} :
           side_option(cmd, p) =>
              IF state = "SidePick" /\ p = captain_b
              THEN /\ team_b_start_side' = cmd
                   /\ state' = "Ready"
                   /\ UNCHANGED <<queue_vars, team_a, team_b, ready_queue,
                                   captain_a, captain_b>>
              ELSE /\ UNCHANGED <<state, queue_vars, ready_queue, draft_vars,
                                   store_vars>>
                   /\ out'.msg \in {"not_side_pick_phase", "not_captain_b"} ]_vars
\* Captain A tried to choose the side.
C19_Witness ==
    /\ state = "SidePick"
    /\ out.cmd \in {"ct", "t"} /\ out.msg = "not_captain_b"
    /\ out.who = captain_a

\* C20: in phase Ready an unready by a queued player who is not in the ready
\* list fails with a NotReady error reported to the player and leaves the
\* ready list unchanged; an unready by a player in the ready list removes
\* exactly that player.
C20_Unready ==
    [][ \A p \in Range(user_queue) :
           (state = "Ready" /\ handle_unready(p)) =>
              IF Contains(ready_queue, p)
              THEN /\ ready_queue' = RemoveAt(ready_queue, Position(ready_queue, p))
                   /\ out'.msg = "no_longer_ready"
              ELSE /\ ready_queue' = ready_queue
                   /\ out'.msg = "not_ready" /\ out'.who = p ]_vars

\* C21: ready is idempotent: in phase Ready a ready by a player who is in
\* the ready list already leaves the ready list (and the rest of the session)
\* unchanged and launches nothing; no player is in the ready list twice.
C21_ReadyIdempotent ==
    [][ /\ ready_queue' # ready_queue => NoDup(ready_queue')
        /\ (state = "Ready" /\ out'.cmd = "ready") =>
              \/ /\ UNCHANGED <<state, queue_vars, ready_queue, draft_vars>>
                 /\ out'.calls = <<>>
              \/ \A p \in Range(ready_queue), l \in ApiOutcomes : ~handle_ready(p, l) ]_vars
\* With nine players ready, one of them sent ready again.
C21_Witness ==
    /\ state = "Ready"
    /\ out.cmd = "ready" /\ out.msg = "already_ready"
    /\ Contains(ready_queue, out.who)
    /\ Len(ready_queue) = QueueCap - 1

\* C22: a command rejected for a violated precondition leaves phase, queue,
\* ready list and draft unchanged (no step that changes one of them is such a
\* command): captain outside CaptainPick, by a player
\* who is not queued or by the current captain A; pick outside Draft, of a
\* target that is not queued, by a player who is no captain, or of a player
\* already on a team; ready or unready outside Ready or by a player who is
\* not queued.
C22_RejectedUnchanged ==
    [][ \/ UNCHANGED <<state, queue_vars, ready_queue, draft_vars>>
        \/ \A p \in Players :
              /\ (/\ out'.cmd = "captain"
                  /\ state # "CaptainPick" \/ ~Contains(user_queue, p) \/ p = captain_a)
                 => \A flip \in {0, 1} : ~handle_captain(p, flip)
              /\ out'.cmd = "pick" =>
                    \A t \in Players :
                       (\/ state # "Draft" \/ ~Contains(user_queue, t)
                        \/ p \notin {captain_a, captain_b} \/ t \in Picked)
                       => ~handle_pick(p, <<t>>)
              /\ (/\ out'.cmd \in {"ready", "unready"}
                  /\ state # "Ready" \/ ~Contains(user_queue, p))
                 => /\ \A l \in ApiOutcomes : ~handle_ready(p, l)
                    /\ ~handle_unready(p) ]_vars
\* The captain whose turn it is named a player who is on a team already.
C22_Witness ==
    /\ state = "Draft"
    /\ out.cmd = "pick" /\ out.msg = "already_on_a_team"
    /\ out.who = current_picker
    /\ Len(team_a) + Len(team_b) > 2

\* C23: an admin-only command (start, kick, clear, recover, cancel, addmap,
\* removemap) sent by a player without the admin role changes neither the
\* session, the queue nor the map pool, in any phase: no step that changes
\* one of them is such a command.
C23_NonAdmin ==
    [][ \/ UNCHANGED <<state, queue_vars, ready_queue, draft_vars, store_vars,
                       task_vars>>
        \/ \A p \in Players \ {Admin} :
              /\ out'.cmd = "start" => \A c \in BOOLEAN : ~handle_start(p, c)
              /\ out'.cmd = "kick" => \A m \in OneMention : ~handle_kick(p, m)
              /\ out'.cmd = "clear" => ~handle_clear(p)
              /\ out'.cmd = "recoverqueue" =>
                    \A m \in {<<>>} \cup MentionLists : ~handle_recover_queue(p, m)
              /\ out'.cmd = "cancel" => ~handle_cancel(p)
              /\ out'.cmd \in {"addmap", "removemap"} =>
                    \A n \in {NoArg} \cup MapNames, io \in BOOLEAN :
                       ~handle_add_map(p, n, io) /\ ~handle_remove_map(p, n, io) ]_vars
\* A queued player without the role sent clear during the draft.
C23_Witness ==
    /\ state = "Draft"
    /\ out.cmd = "clear" /\ out.msg = "requires_role"
    /\ Contains(user_queue, out.who) /\ out.who # Admin
    /\ Len(user_queue) = QueueCap

\* The two identity lists of a start-match call: team1_steam_ids (the T
\* side) and team2_steam_ids (the CT side).
TeamT(call) == call.a
TeamCT(call) == call.b
\* `ids` holds one identity per member of `team`, in team order: the
\* member's stored identity up to the character at index 6.
IdsOf(ids, team) ==
    /\ Len(ids) = Len(team)
    /\ \A k \in 1..Len(team) :
          /\ team[k] \in DOMAIN steam_id_cache
          /\ Len(ids[k]) = Len(steam_id_cache[team[k]])
          /\ \A j \in 1..Len(ids[k]) :
                j # 6 + 1 => ids[k][j] = steam_id_cache[team[k]][j]

\* C24: the start-match call is issued only when every member of both teams
\* has an identity in the cache (a missing one prevents the call), and each
\* of its two identity lists holds exactly 5 identities, one per member of
\* the corresponding team.
C24_LaunchIdentities ==
    [][ \A i \in StartMatchCalls(out'.calls) :
           /\ Range(team_a) \cup Range(team_b) \subseteq DOMAIN steam_id_cache
           /\ Len(TeamT(out'.calls[i])) = TeamSize
           /\ Len(TeamCT(out'.calls[i])) = TeamSize
           /\ \/ /\ IdsOf(TeamT(out'.calls[i]), team_a)
                 /\ IdsOf(TeamCT(out'.calls[i]), team_b)
              \/ /\ IdsOf(TeamT(out'.calls[i]), team_b)
                 /\ IdsOf(TeamCT(out'.calls[i]), team_a) ]_vars
\* A match was launched with five identities on either side.
C24_Witness ==
    /\ out.cmd = "ready" /\ out.msg = "server_started"
    /\ StartMatchCalls(out.calls) = {1}
    /\ Len(TeamT(out.calls[1])) = TeamSize
    /\ TeamT(out.calls[1]) # TeamCT(out.calls[1])

\* C25: in the start-match call team B's identities are sent as the side
\* recorded in team_b_start_side and team A's as the other side: with "ct"
\* the CT list is team B and the T list team A, with "t" the T list is team
\* B and the CT list team A.
C25_Sides ==
    [][ \A i \in StartMatchCalls(out'.calls) :
           /\ team_b_start_side \in {"ct", "t"}
           /\ team_b_start_side = "ct" =>
                 /\ IdsOf(TeamCT(out'.calls[i]), team_b)
                 /\ IdsOf(TeamT(out'.calls[i]), team_a)
           /\ team_b_start_side = "t" =>
                 /\ IdsOf(TeamT(out'.calls[i]), team_b)
                 /\ IdsOf(TeamCT(out'.calls[i]), team_a) ]_vars
\* Captain B, the second registrant, chose T and leads the T list of the
\* launch; captain A leads the CT list.
C25_Witness ==
    /\ out.cmd = "ready" /\ StartMatchCalls(out.calls) = {1}
    /\ team_b_start_side = "t"
    /\ TeamT(out.calls[1])[1] = replace_range(steam_id_cache[1 + 1])
    /\ TeamCT(out.calls[1])[1] = replace_range(steam_id_cache[1])

\* The identities sent by the last launch.
SentIds ==
    UNION {Range(TeamT(out.calls[i])) \cup Range(TeamCT(out.calls[i])) :
              i \in StartMatchCalls(out.calls)}
\* r is s with the character at index 6 (the seventh) set to "1".
Rewritten(s, r) ==
    /\ Len(r) = Len(s)
    /\ r[6 + 1] = "1"
    /\ \A j \in 1..Len(s) : j # 6 + 1 => r[j] = s[j]

\* C26: the anonymization applied at launch rewrites exactly the character
\* at index 6 of the identity to "1" and leaves every other character and the
\* length unchanged ("STEAM_0:1:12345" becomes "STEAM_1:1:12345"); applied
\* twice it gives the same result as applied once.
C26_Anonymize ==
    /\ replace_range(SteamIdStr("0", 12345)) = SteamIdStr("1", 12345)
    /\ \A u \in DOMAIN steam_id_cache :
          /\ Rewritten(steam_id_cache[u], replace_range(steam_id_cache[u]))
          /\ replace_range(replace_range(steam_id_cache[u]))
                = replace_range(steam_id_cache[u])
    /\ \A id \in SentIds :
          \E u \in DOMAIN steam_id_cache : Rewritten(steam_id_cache[u], id)
\* A launch sent an identity that is stored with another digit at index 6.
C26_Witness ==
    /\ out.cmd = "ready" /\ out.msg = "server_started"
    /\ \E id \in SentIds :
          /\ id \notin {steam_id_cache[u] : u \in DOMAIN steam_id_cache}
          /\ \E u \in DOMAIN steam_id_cache :
                steam_id_cache[u][6 + 1] = "5" /\ Rewritten(steam_id_cache[u], id)

\* C27: for every server address host:port with a numeric port, the
\* spectator address announced after a successful launch is the same host
\* with port + 1 ("1.2.3.4:27015" gives "1.2.3.4:27016").
C27_SpectatorPort ==
    /\ gotv_url(<<"1", ".", "2", ".", "3", ".", "4", ":", "2", "7", "0", "1", "5">>)
          = <<"1", ".", "2", ".", "3", ".", "4", ":", "2", "7", "0", "1", "6">>
    /\ (out.cmd = "ready" /\ out.msg = "server_started") =>
          \E h \in Hosts, z \in LeadingZeros, n \in Ports :
             /\ server_url = Url(h, z, n)
             /\ out.calls[2].api = "send_msg"
             /\ out.calls[2].a = h \o <<":">> \o DigitsOf(n + 1)
\* A launch announced a spectator port with one digit more than the port
\* of the server.
C27_Witness ==
    /\ out.cmd = "ready" /\ out.msg = "server_started"
    /\ out.calls[2].api = "send_msg"
    /\ Len(out.calls[2].a) = Len(server_url) + 1

\* A command other than the start sequence in progress, by any user.
OtherCommand ==
    \/ \E p \in Players, q \in BOOLEAN : Join(p, q)
    \/ recover_join
    \/ \E p \in Players :
          \/ handle_leave(p)
          \/ handle_clear(p)
          \/ handle_cancel(p)
          \/ handle_ct_option(p)
          \/ handle_t_option(p)
          \/ handle_unready(p)
          \/ \E m \in OneMention : handle_kick(p, m) \/ handle_pick(p, m)
          \/ \E m \in {<<>>} \cup MentionLists : handle_recover_queue(p, m)
          \/ \E c \in BOOLEAN : handle_start(p, c)
          \/ \E flip \in {0, 1} : handle_captain(p, flip)
          \/ \E l \in ApiOutcomes : handle_ready(p, l)
          \/ \E a \in SteamIdArgs(p), io \in BOOLEAN : handle_steam_id(p, a, io)
          \/ \E n \in {NoArg} \cup MapNames, io \in BOOLEAN :
                handle_add_map(p, n, io) \/ handle_remove_map(p, n, io)

\* C28: from the moment an accepted start sets the phase to MapPick until
\* that start handler finishes (both vote delays and the set-map call
\* included), no other command reads or changes the session, the queue or
\* the map pool: none can run, and the only step is the end of the start
\* sequence, so every other command takes effect after it.
C28_StartHoldsLock ==
    [][ pc = "vote" =>
           /\ state = "MapPick"
           /\ ~ENABLED OtherCommand
           /\ out'.cmd = "start" /\ pc' = "idle"
           /\ UNCHANGED <<queue_vars, ready_queue, store_vars, recover_pending>> ]_vars
\* The vote is running while a recover still has a player to join.
C28_Witness ==
    /\ pc = "vote" /\ state = "MapPick"
    /\ recover_pending # <<>>
    /\ Len(user_queue) = QueueCap

\* C29: if the set-map call of a start sequence fails, by transport error or
\* by a non-success status, the start sequence aborts and the phase does not
\* become CaptainPick for that start.
C29_SetMapFailureAborts ==
    [][ (/\ pc = "vote"
         /\ StartResolved'
         /\ SetMapCall'.status # "success")
        => state' # "CaptainPick" ]_vars

\* C30: for every pool that addmap can produce (1 to 26 unique maps), an
\* accepted start gives the i-th map of the pool the i-th letter of the
\* alphabet as its ballot symbol, all symbols distinct, and posts the ballot
\* with one reaction per map.
C30_Ballot ==
    [][ (/\ state = "Queue" /\ Len(user_queue) = QueueCap
         /\ Len(maps) \in 1..MaxMaps
         /\ handle_start(Admin, TRUE))
        => (/\ out'.msg = "map_vote"
            /\ Len(out'.calls) = 1
            /\ out'.calls[1].a = [i \in 1..Len(maps) |-> <<Alphabet[i], maps[i]>>]
            /\ out'.calls[1].b = [i \in 1..Len(maps) |-> Alphabet[i]]
            /\ NoDup(out'.calls[1].b)) ]_vars

\* C31: if the start-match call returns a non-success status, the launch
\* reports the status and has no further external effect: no voice-channel
\* move and no team-name console command is sent for that launch.
C31_FailedLaunchStops ==
    (/\ out.cmd = "ready"
     /\ \E i \in StartMatchCalls(out.calls) : out.calls[i].status = "failure_status")
    => (/\ out.msg = "server_failed_to_start"
        /\ \A i \in 1..Len(out.calls) :
              out.calls[i].api \notin {"move_members", "console"})

\* C32: whenever no handler holds the lock, each persisted document (steam
\* ids, map pool, team names) equals the in-memory store it belongs to.
C32_DocumentsMatchStores ==
    Unlocked =>
       /\ files.steam_ids = steam_id_cache
       /\ files.maps = maps
       /\ files.teamnames = teamname_cache

\* C33: the session reset (admin cancel, or the reset after a launch) clears
\* the whole draft, so team B's starting side is unset whenever the phase
\* is Queue.
C33_SideClearedInQueue ==
    state = "Queue" => team_b_start_side = ""

\* C34: every player in the queue and every member of team A or team B has
\* a steam id in the cache, so a launch never ends in the failed lookup
\* (the panic before the start-match call is issued).
C34_QueuedHaveSteamId ==
    /\ Range(user_queue) \cup Range(team_a) \cup Range(team_b) \subseteq DOMAIN steam_id_cache
    /\ (out.cmd = "ready" /\ out.msg = "panic") => out.calls # <<>>
\* A launch succeeded with the admin, who registered during the run, on a team.
C34_Witness ==
    /\ out.cmd = "ready"
    /\ out.msg = "server_started"
    /\ Admin \in Range(out.calls[3].a) \cup Range(out.calls[4].a)
    /\ Admin \in DOMAIN steam_id_cache

\* C35: in every reachable state with a phase other than Ready the ready
\* list is empty.
C35_ReadyOnlyInReady ==
    state # "Ready" => ready_queue = <<>>
\* The tenth ready launched and the reset left phase Queue with an empty
\* ready list.
C35_Witness ==
    /\ out.cmd = "ready" /\ out.msg = "server_started"
    /\ state = "Queue"
    /\ ready_queue = <<>>

\* C36: in every reachable state of phase Draft the current picker is
\* captain A or captain B, team A holds as many players as team B or one
\* more, and the picker is captain A exactly when the teams are level.
C36_DraftTurn ==
    state = "Draft" =>
       /\ current_picker \in {captain_a, captain_b}
       /\ current_picker # NoUser
       /\ Len(team_a) - Len(team_b) \in {0, 1}
       /\ (current_picker = captain_a) <=> (Len(team_a) = Len(team_b))
\* Captain A has picked, team A is one ahead and captain B is to pick.
C36_Witness ==
    /\ state = "Draft"
    /\ out.cmd = "pick"
    /\ Len(team_a) = Len(team_b) + 1
    /\ Len(team_a) > 2
    /\ current_picker = captain_b

\* C37: phase MapPick is held only while a start handler runs: whenever no
\* handler holds the lock the phase is not MapPick, also after a start
\* sequence that ended early.
C37_MapPickOnlyLocked ==
    Unlocked => state # "MapPick"

\* C38: whenever a launch is triggered, the ten players of the ready list
\* (the nine listed and the one whose ready triggers it) are exactly the
\* members of team A and team B.
C38_ReadyAreTeams ==
    [][ \/ ~(out'.cmd = "ready" /\ StartMatchCalls(out'.calls) # {})
        \/ \A p \in Players, l \in ApiOutcomes :
              handle_ready(p, l)
              => Range(ready_queue) \cup {p} = Range(team_a) \cup Range(team_b) ]_vars

\* C39: the session is never wedged.  In every reachable state with a phase
\* other than Queue and the lock free, an admin cancel is accepted and every
\* outcome of it is phase Queue; while a start handler holds the lock, the
\* handler can end and free the lock.  So a state of phase Queue can be
\* reached from every reachable state.
C39_CancelUnwedges ==
    /\ (Unlocked /\ state # "Queue") =>
          /\ ENABLED (handle_cancel(Admin) /\ out'.msg = "start_cancelled"
                      /\ state' = "Queue")
          /\ ~ENABLED (handle_cancel(Admin) /\ state' # "Queue")
    /\ ~Unlocked => ENABLED (start_finish(<<>>, 0, "success") /\ Unlocked')
\* After a clear in phase Ready left an empty queue, an admin cancel was
\* accepted and the phase is Queue again.
C39_Witness ==
    /\ out.cmd = "cancel" /\ out.msg = "start_cancelled"
    /\ state = "Queue"
    /\ user_queue = <<>>
    /\ team_b_start_side # ""
====
